---------------------------- MODULE Spec2Model ----------------------------
(***************************************************************************)
(* A model of the retrieval-augmented generation core of transport-llm:    *)
(* the similarity engine (topKCosine), the lazily loaded index             *)
(* (ensureIndex / retrieve / getIndexInfo), the relevance ranker           *)
(* (domain filter, applyDomainWeights, mmr) and the prompt assembler       *)
(* (buildAugmentedPrompt).                                                 *)
(*                                                                         *)
(* Numbers.  Scores are JavaScript doubles in the source; the model keeps  *)
(* them as integers (fixed point), so every sum, product and comparison    *)
(* is exact.  lambda is kept in tenths (7 is 0.7), the redundancy          *)
(* penalties in tenths (5 is 0.5, 3 is 0.3).                               *)
(*                                                                         *)
(* Each part of the program has its own specification over its own         *)
(* variables; the variables of the other parts stay at their idle value.   *)
(***************************************************************************)
EXTENDS Integers, Sequences, FiniteSets, TLC

VARIABLES
    \* ---- topKCosine, one call (src/unnamed/part_004) ----
    tkQuery,     \* query: Float32Array
    tkMatrix,    \* matrix: Float32Array, row major, N*dim
    tkDim,       \* dim
    tkK,         \* k
    tkI,         \* the loop variable i (0-based, as in the source)
    tkAcc,       \* acc: the small list of {index, score}
    tkPc,        \* "idle" | "scan" | "done" | "threw"
    \* ---- the lazily loaded index and its callers (src/unnamed/part_003) ----
    ldIndex,     \* _index: Null, or the load whose index.json it holds
    ldEmb,       \* _emb: Null, or the load whose embeddings.f32 it holds
    ldPc,        \* per caller: where its retrieve() / getIndexInfo() stands
    ldKind,      \* per caller: "retrieve" | "info"
    ldLoad,      \* per caller: the load its ensureIndex() started, or Null
    ldSeen,      \* per caller: the <<_index, _emb>> its call read after the awaits
    ldStarted,   \* number of loads started (pairs of fetches issued)
    ldFailed,    \* number of loads that failed
    ldLastFailed, \* history: a load has failed and no call was made since
    \* ---- one retrieve() over a loaded index (src/unnamed/part_003) ----
    rtChunks,    \* _index.chunks
    rtDim,       \* _index.dim
    rtEmb,       \* _emb
    rtPc,        \* "idle" | "ready" | "returned" | "threw"
    rtQuery,     \* the vector embedQuery resolved to
    rtOpts,      \* opts: RetrievalOptions
    rtFetchK,    \* fetchK, the k passed to topKCosine
    rtRawHits,   \* rawHits
    rtFiltered,  \* filtered
    rtWeighted,  \* weighted, as applyDomainWeights returned it
    rtTopK,      \* the result's topK
    rtApplied,   \* the result's applied
    \* ---- buildAugmentedPrompt, one call (src/web/src/rag/augment.ts) ----
    paQuery,     \* userQuery
    paRetrieved, \* retrieved: Retrieved[], score in thousandths
    paOpts,      \* opts: BudgetOpts
    paOut,       \* the string returned
    paPc,        \* "idle" | "ready" | "done"
    \* ---- the lexical index: buildIndex and topK (src/unnamed/part_000) ----
    rgDocs,      \* docs: Doc[]
    rgIndex,     \* the RagIndex buildIndex returned
    rgQuery,     \* q
    rgK,         \* k
    rgHits,      \* the list topK returned
    rgMaxChars,  \* maxChars of makeContext
    rgCtx,       \* the string makeContext returned
    rgUser,      \* the user message send() made of it
    rgPc,        \* "idle" | "start" | "built" | "queried" | "made" | "composed"
    \* ---- the chat application (src/unnamed/part_001) ----
    chEngine,    \* engine: whether it is set (not null)
    chBusy,      \* busy
    chInput,     \* input
    chMessages,  \* messages
    chInitPc,    \* the engine initialisation: "idle" | "loading" | "done"
    chSends,     \* the calls of send(), in the order they began: their local variables
    \* ---- cosineSim (src/unnamed/part_004) and cosine (src/unnamed/part_000), called both ways ----
    csKind,      \* "idle" | "dense" (cosineSim) | "sparse" (cosine)
    csA,         \* a
    csB,         \* b
    csAB,        \* the value of the call with (a, b)
    csBA,        \* the value of the call with (b, a)
    csPc,        \* "idle" | "ready" | "done"
    \* ---- the initialization of the engine (src/web/src/App.tsx, lines 52-82) ----
    eiModelId,   \* modelId
    eiEngine,    \* engine: NoEngine (null), or the model whose engine it is
    eiBusy,      \* busy
    eiMessages,  \* messages
    eiInits,     \* the calls of init(model), in the order they were made
    eiMounted    \* whether the component is mounted

tkVars == <<tkQuery, tkMatrix, tkDim, tkK, tkI, tkAcc, tkPc>>

ldVars == <<ldIndex, ldEmb, ldPc, ldKind, ldLoad, ldSeen, ldStarted, ldFailed, ldLastFailed>>

rtVars == <<rtChunks, rtDim, rtEmb, rtPc, rtQuery, rtOpts, rtFetchK,
            rtRawHits, rtFiltered, rtWeighted, rtTopK, rtApplied>>

paVars == <<paQuery, paRetrieved, paOpts, paOut, paPc>>

rgVars == <<rgDocs, rgIndex, rgQuery, rgK, rgHits, rgMaxChars, rgCtx, rgUser, rgPc>>

chVars == <<chEngine, chBusy, chInput, chMessages, chInitPc, chSends>>

csVars == <<csKind, csA, csB, csAB, csBA, csPc>>

eiVars == <<eiModelId, eiEngine, eiBusy, eiMessages, eiInits, eiMounted>>

vars == <<tkQuery, tkMatrix, tkDim, tkK, tkI, tkAcc, tkPc,
          ldIndex, ldEmb, ldPc, ldKind, ldLoad, ldSeen, ldStarted, ldFailed, ldLastFailed,
          rtChunks, rtDim, rtEmb, rtPc, rtQuery, rtOpts, rtFetchK,
          rtRawHits, rtFiltered, rtWeighted, rtTopK, rtApplied,
          paQuery, paRetrieved, paOpts, paOut, paPc,
          rgDocs, rgIndex, rgQuery, rgK, rgHits, rgMaxChars, rgCtx, rgUser, rgPc,
          chEngine, chBusy, chInput, chMessages, chInitPc, chSends,
          csKind, csA, csB, csAB, csBA, csPc,
          eiModelId, eiEngine, eiBusy, eiMessages, eiInits, eiMounted>>

-----------------------------------------------------------------------------
(* Bounds of the model *)

MaxMatrixLen == 4
MaxK == 3
NumCallers == 2
MaxLoads == 3
MaxChunks == 3
MaxCands == 3
MaxTokens == 32
MaxDocs == 2
MaxSends == 2
MaxStreamChunks == 2
MaxVecLen == 3
MaxInits == 3
MantissaBits == 11

(* Values the entries of a vector are drawn from *)
MatrixValues == {0, 1, 2}
QueryVectors == {<<1, 0>>, <<1, 1>>, <<-1, 1>>}
Dims == {1, 2}

-----------------------------------------------------------------------------
(* The idle value of each part's variables: the state of a part that the   *)
(* specification at hand does not run.                                     *)

\* null, of _index and _emb
Null == 0

\* useState<MLCEngineInterface | null>(null)
NoEngine == ""

TopKIdle ==
    /\ tkQuery = <<>> /\ tkMatrix = <<>> /\ tkDim = 1 /\ tkK = 1
    /\ tkI = 0 /\ tkAcc = <<>> /\ tkPc = "idle"

LoadIdle ==
    /\ ldIndex = Null /\ ldEmb = Null
    /\ ldPc = <<>> /\ ldKind = <<>> /\ ldLoad = <<>> /\ ldSeen = <<>>
    /\ ldStarted = 0 /\ ldFailed = 0 /\ ldLastFailed = FALSE

RetrieveIdle ==
    /\ rtChunks = <<>> /\ rtDim = 1 /\ rtEmb = <<>> /\ rtPc = "idle"
    /\ rtQuery = <<>> /\ rtOpts = <<>> /\ rtFetchK = 0
    /\ rtRawHits = <<>> /\ rtFiltered = <<>> /\ rtWeighted = <<>>
    /\ rtTopK = <<>> /\ rtApplied = <<>>

PromptIdle ==
    /\ paQuery = "" /\ paRetrieved = <<>> /\ paOpts = <<>>
    /\ paOut = "" /\ paPc = "idle"

RagIdle ==
    /\ rgDocs = <<>> /\ rgIndex = <<>> /\ rgQuery = "" /\ rgK = 0
    /\ rgHits = <<>> /\ rgMaxChars = 0 /\ rgCtx = "" /\ rgUser = ""
    /\ rgPc = "idle"

ChatIdle ==
    /\ chEngine = FALSE /\ chBusy = FALSE /\ chInput = "" /\ chMessages = <<>>
    /\ chInitPc = "idle" /\ chSends = <<>>

CosineIdle ==
    /\ csKind = "idle" /\ csA = <<>> /\ csB = <<>> /\ csAB = <<>> /\ csBA = <<>>
    /\ csPc = "idle"

EngineInitIdle ==
    /\ eiModelId = "" /\ eiEngine = NoEngine /\ eiBusy = FALSE /\ eiMessages = <<>>
    /\ eiInits = <<>> /\ eiMounted = FALSE

-----------------------------------------------------------------------------
(* Sequences *)

RECURSIVE SeqsUpTo(_, _)
SeqsUpTo(S, n) ==
    IF n = 0 THEN {<<>>}
    ELSE LET shorter == SeqsUpTo(S, n - 1)
         IN  shorter \cup {Append(s, x) : s \in {t \in shorter : Len(t) = n - 1}, x \in S}

Max2(a, b) == IF a >= b THEN a ELSE b

-----------------------------------------------------------------------------
(* Array.prototype.sort((x, y) => y.score - x.score): a stable sort by     *)
(* descending score (ECMAScript 2019 makes sort stable).  Insertion from   *)
(* the left keeps equal scores in their order in the array.                *)

RECURSIVE InsertDesc(_, _)
InsertDesc(sorted, e) ==
    IF sorted = <<>> THEN <<e>>
    ELSE IF Head(sorted).score >= e.score
         THEN <<Head(sorted)>> \o InsertDesc(Tail(sorted), e)
         ELSE <<e>> \o sorted

RECURSIVE SortFrom(_, _)
SortFrom(sorted, rest) ==
    IF rest = <<>> THEN sorted
    ELSE SortFrom(InsertDesc(sorted, Head(rest)), Tail(rest))

SortByScoreDesc(arr) == SortFrom(<<>>, arr)

-----------------------------------------------------------------------------
(* topKCosine (src/unnamed/part_004, lines 14-37) *)

\* const N = Math.floor(matrix.length / dim)
RowCount(matrix, dim) == Len(matrix) \div dim

\* the inner loop: s += query[j] * matrix[base + j], j = 0 .. dim-1
RECURSIVE DotFrom(_, _, _, _, _)
DotFrom(query, matrix, base, dim, j) ==
    IF j >= dim THEN 0
    ELSE query[j + 1] * matrix[base + j + 1] + DotFrom(query, matrix, base, dim, j + 1)

RowScore(query, matrix, dim, i) == DotFrom(query, matrix, i * dim, dim, 0)

\* Whether the body of the outer loop throws for this acc: with
\* acc.length >= k the else branch reads acc[k - 1].score, and acc[k - 1]
\* is undefined when k - 1 is no index of acc (k <= 0).
RowThrows(acc, k) == Len(acc) >= k /\ ~(k - 1 \in 0 .. Len(acc) - 1)

\* The comparison that decides a replacement of the current minimum.
BeatsMin(s, min) == s > min

\* The sort done when the list has just been filled.
SortWhenFull(acc, k) == IF Len(acc) = k THEN SortByScoreDesc(acc) ELSE acc

\* One pass of the outer loop for row i with score s, when it does not throw.
TopKRow(acc, k, i, s) ==
    IF Len(acc) < k
    THEN SortWhenFull(Append(acc, [index |-> i, score |-> s]), k)
    ELSE IF BeatsMin(s, acc[k].score)
         THEN SortByScoreDesc([acc EXCEPT ![k] = [index |-> i, score |-> s]])
         ELSE acc

\* The whole call: [threw |-> BOOLEAN, acc |-> the list returned].
RECURSIVE TopKFrom(_, _, _, _, _, _)
TopKFrom(query, matrix, dim, k, i, acc) ==
    IF i >= RowCount(matrix, dim) THEN [threw |-> FALSE, acc |-> acc]
    ELSE IF RowThrows(acc, k) THEN [threw |-> TRUE, acc |-> <<>>]
    ELSE TopKFrom(query, matrix, dim, k, i + 1,
                  TopKRow(acc, k, i, RowScore(query, matrix, dim, i)))

\* (A variant that throws when the matrix has no row.)
topKCosineStrict(query, matrix, dim, k) ==
    IF RowCount(matrix, dim) = 0 THEN [threw |-> TRUE, acc |-> <<>>]
    ELSE TopKFrom(query, matrix, dim, k, 0, <<>>)

topKCosine(query, matrix, dim, k) == TopKFrom(query, matrix, dim, k, 0, <<>>)

-----------------------------------------------------------------------------
(* The lazily loaded index: ensureIndex, retrieve, getIndexInfo            *)
(* (src/unnamed/part_003, lines 5-21, 36-52, 90-100).  JavaScript runs one *)
(* caller at a time and switches callers only at an await, so each action  *)
(* is the code between two awaits of one caller.                           *)

Callers == 1 .. NumCallers
CallKinds == {"retrieve", "info"}

LoadInit ==
    /\ TopKIdle /\ RetrieveIdle /\ PromptIdle /\ RagIdle /\ ChatIdle /\ CosineIdle /\ EngineInitIdle
    /\ ldIndex = Null /\ ldEmb = Null
    /\ ldPc = [c \in Callers |-> "idle"]
    /\ ldKind = [c \in Callers |-> "retrieve"]
    /\ ldLoad = [c \in Callers |-> Null]
    /\ ldSeen = [c \in Callers |-> <<Null, Null>>]
    /\ ldStarted = 0 /\ ldFailed = 0 /\ ldLastFailed = FALSE

\* if (_index && _emb) return;
IndexReady(index, emb) == index # Null /\ emb # Null

\* retrieve() or getIndexInfo() is called and runs into ensureIndex() up to
\* its first await: either it returns at once, or it issues the two fetches.
Call(c, kind) ==
    /\ ldPc[c] = "idle"
    /\ ldKind' = [ldKind EXCEPT ![c] = kind]
    /\ ldSeen' = [ldSeen EXCEPT ![c] = <<Null, Null>>]
    /\ IF IndexReady(ldIndex, ldEmb)
       THEN /\ ldPc' = [ldPc EXCEPT ![c] = "ensured"]
            /\ ldLoad' = [ldLoad EXCEPT ![c] = Null]
            /\ UNCHANGED ldStarted
       ELSE /\ ldStarted < MaxLoads
            /\ ldStarted' = ldStarted + 1
            /\ ldLoad' = [ldLoad EXCEPT ![c] = ldStarted + 1]
            /\ ldPc' = [ldPc EXCEPT ![c] = "fetching"]
    /\ ldLastFailed' = FALSE
    /\ UNCHANGED <<ldIndex, ldEmb, ldFailed>>
    /\ UNCHANGED <<tkVars, rtVars, paVars, rgVars, chVars, csVars, eiVars>>

\* await Promise.all([fetch, fetch]) settles; a rejected fetch or a response
\* that is not ok makes ensureIndex throw, which rejects the caller's call.
FetchSettled(c, ok) ==
    /\ ldPc[c] = "fetching"
    /\ IF ok
       THEN /\ ldPc' = [ldPc EXCEPT ![c] = "parsing"]
            /\ UNCHANGED <<ldFailed, ldLastFailed>>
       ELSE /\ ldPc' = [ldPc EXCEPT ![c] = "rejected"]
            /\ ldFailed' = ldFailed + 1
            /\ ldLastFailed' = TRUE
    /\ UNCHANGED <<ldIndex, ldEmb, ldKind, ldLoad, ldSeen, ldStarted>>
    /\ UNCHANGED <<tkVars, rtVars, paVars, rgVars, chVars, csVars, eiVars>>

\* _index = (await idxResp.json()); then embResp.arrayBuffer() is awaited
JsonSettled(c, ok) ==
    /\ ldPc[c] = "parsing"
    /\ IF ok
       THEN /\ ldIndex' = ldLoad[c]
            /\ ldPc' = [ldPc EXCEPT ![c] = "buffering"]
            /\ UNCHANGED <<ldFailed, ldLastFailed>>
       ELSE /\ ldPc' = [ldPc EXCEPT ![c] = "rejected"]
            /\ ldFailed' = ldFailed + 1
            /\ ldLastFailed' = TRUE
            /\ UNCHANGED ldIndex
    /\ UNCHANGED <<ldEmb, ldKind, ldLoad, ldSeen, ldStarted>>
    /\ UNCHANGED <<tkVars, rtVars, paVars, rgVars, chVars, csVars, eiVars>>

\* const buf = await embResp.arrayBuffer(); _emb = new Float32Array(buf);
\* ensureIndex returns
BufferSettled(c, ok) ==
    /\ ldPc[c] = "buffering"
    /\ IF ok
       THEN /\ ldEmb' = ldLoad[c]
            /\ ldPc' = [ldPc EXCEPT ![c] = "ensured"]
            /\ UNCHANGED <<ldFailed, ldLastFailed>>
       ELSE /\ ldPc' = [ldPc EXCEPT ![c] = "rejected"]
            /\ ldFailed' = ldFailed + 1
            /\ ldLastFailed' = TRUE
            /\ UNCHANGED ldEmb
    /\ UNCHANGED <<ldIndex, ldKind, ldLoad, ldSeen, ldStarted>>
    /\ UNCHANGED <<tkVars, rtVars, paVars, rgVars, chVars, csVars, eiVars>>

\* The caller resumes after await ensureIndex().  getIndexInfo reads _index
\* and returns; retrieve checks both references and awaits embedQuery.
AfterEnsure(c) ==
    /\ ldPc[c] = "ensured"
    /\ IF ldKind[c] = "info"
       THEN /\ ldSeen' = [ldSeen EXCEPT ![c] = <<ldIndex, Null>>]
            /\ ldPc' = [ldPc EXCEPT ![c] = "done"]
       ELSE /\ ldPc' = [ldPc EXCEPT ![c] =
                    IF IndexReady(ldIndex, ldEmb) THEN "embedding" ELSE "rejected"]
            /\ UNCHANGED ldSeen
    /\ UNCHANGED <<ldIndex, ldEmb, ldKind, ldLoad, ldStarted, ldFailed, ldLastFailed>>
    /\ UNCHANGED <<tkVars, rtVars, paVars, rgVars, chVars, csVars, eiVars>>

\* const q = await embedQuery(query) settles; on success the rest of
\* retrieve runs without an await: topKCosine(q, _emb!, _index!.dim, fetchK)
\* and _index!.chunks[index] read the two references as they are now.
EmbedSettled(c, ok) ==
    /\ ldPc[c] = "embedding"
    /\ IF ok
       THEN /\ ldSeen' = [ldSeen EXCEPT ![c] = <<ldIndex, ldEmb>>]
            /\ ldPc' = [ldPc EXCEPT ![c] = "done"]
       ELSE /\ ldPc' = [ldPc EXCEPT ![c] = "rejected"]
            /\ UNCHANGED ldSeen
    /\ UNCHANGED <<ldIndex, ldEmb, ldKind, ldLoad, ldStarted, ldFailed, ldLastFailed>>
    /\ UNCHANGED <<tkVars, rtVars, paVars, rgVars, chVars, csVars, eiVars>>

\* The caller has its result or its rejection and may call again.
CallOver(c) ==
    /\ ldPc[c] \in {"done", "rejected"}
    /\ ldPc' = [ldPc EXCEPT ![c] = "idle"]
    /\ UNCHANGED <<ldIndex, ldEmb, ldKind, ldLoad, ldSeen, ldStarted, ldFailed, ldLastFailed>>
    /\ UNCHANGED <<tkVars, rtVars, paVars, rgVars, chVars, csVars, eiVars>>

LoadNext ==
    \E c \in Callers :
        \/ \E kind \in CallKinds : Call(c, kind)
        \/ \E ok \in BOOLEAN : FetchSettled(c, ok)
        \/ \E ok \in BOOLEAN : JsonSettled(c, ok)
        \/ \E ok \in BOOLEAN : BufferSettled(c, ok)
        \/ AfterEnsure(c)
        \/ \E ok \in BOOLEAN : EmbedSettled(c, ok)
        \/ CallOver(c)

SpecLoad == LoadInit /\ [][LoadNext]_vars

\* C2: under any interleaving of retrieve() and getIndexInfo() calls, the
\* index load is started at most once while no load has failed.
C2_LoadStartedAtMostOnce == ldFailed = 0 => ldStarted <= 1

\* C3: whenever a retrieve call scores candidates and maps hits to chunks,
\* the _index and the _emb it reads are both set and come from one load.
C3_QueryReadsOneLoad ==
    \A c \in DOMAIN ldPc :
        (ldPc[c] = "done" /\ ldKind[c] = "retrieve") =>
            /\ ldSeen[c][1] # Null
            /\ ldSeen[c][2] # Null
            /\ ldSeen[c][1] = ldSeen[c][2]

-----------------------------------------------------------------------------
(* Strings.  TLC's strings take Len, \o and SubSeq, which is what          *)
(* String.prototype.toLowerCase needs.                                     *)

UpperLetters == "ABCDEFGHIJKLMNOPQRSTUVWXYZ"
LowerLetters == "abcdefghijklmnopqrstuvwxyz"

CharAt(str, i) == SubSeq(str, i, i)

\* the lower-case letter of each upper-case letter
LowerOf ==
    [ch \in {CharAt(UpperLetters, i) : i \in 1 .. Len(UpperLetters)} |->
        CharAt(LowerLetters, CHOOSE i \in 1 .. Len(UpperLetters) : CharAt(UpperLetters, i) = ch)]

LowerChar(ch) == IF ch \in DOMAIN LowerOf THEN LowerOf[ch] ELSE ch

RECURSIVE toLowerCase(_)
toLowerCase(str) ==
    IF Len(str) = 0 THEN ""
    ELSE LowerChar(CharAt(str, 1)) \o toLowerCase(SubSeq(str, 2, Len(str)))

-----------------------------------------------------------------------------
(* The relevance ranker: scorer.ts and the body of retrieve                *)
(* (src/unnamed/part_003, lines 43-88).  An optional property of a         *)
(* JavaScript object is a field the record has or has not.                 *)

Has(obj, field) == field \in DOMAIN obj

\* (c.meta?.domain || "").toLowerCase(); the model keeps meta.domain as the
\* chunk's optional field "domain"
ChunkDomain(c) == toLowerCase(IF Has(c, "domain") THEN c.domain ELSE "")

\* const k = opts.k ?? 5
DefaultK == 5
EffectiveK(opts) == IF Has(opts, "k") THEN opts.k ELSE DefaultK

\* const fetchK = Math.max(k * 4, opts.mmr?.fetchK ?? 40)
DefaultFetchK == 40
\* (A variant that takes a supplied fetchK as it is.)
FetchKAsSupplied(opts) ==
    IF Has(opts, "mmr") /\ Has(opts.mmr, "fetchK") THEN opts.mmr.fetchK
    ELSE Max2(EffectiveK(opts) * 4, DefaultFetchK)

FetchK(opts) ==
    Max2(EffectiveK(opts) * 4,
         IF Has(opts, "mmr") /\ Has(opts.mmr, "fetchK") THEN opts.mmr.fetchK
         ELSE DefaultFetchK)

\* opts.mmr.lambda ?? 0.7, in tenths
DefaultLambda == 7
EffectiveLambda(opts) ==
    IF Has(opts.mmr, "lambda") THEN opts.mmr.lambda ELSE DefaultLambda

\* arr.filter(pred), for the predicate over hits given as the set of hits kept
RECURSIVE FilterSeq(_, _)
FilterSeq(arr, keep) ==
    IF arr = <<>> THEN <<>>
    ELSE (IF Head(arr) \in keep THEN <<Head(arr)>> ELSE <<>>) \o FilterSeq(Tail(arr), keep)

\* allow.has(dom), allow = new Set(opts.domains.map((d) => d.toLowerCase()))
AllowSet(domains) == {toLowerCase(domains[i]) : i \in DOMAIN domains}
\* (A variant that lets a chunk without a domain tag pass every filter.)
DomainAllowedOrUntagged(c, domains) ==
    ChunkDomain(c) = "" \/ ChunkDomain(c) \in AllowSet(domains)
DomainAllowed(c, domains) == ChunkDomain(c) \in AllowSet(domains)

\* Optional domain filtering (part_003, lines 54-62); chunks is 0-based in
\* the source and 1-based here
DomainFilter(rawHits, chunks, opts) ==
    IF Has(opts, "domains") /\ Len(opts.domains) > 0
    THEN FilterSeq(rawHits,
                   {h \in {rawHits[i] : i \in DOMAIN rawHits} :
                        DomainAllowed(chunks[h.index + 1], opts.domains)})
    ELSE rawHits

\* const w = domainWeights?.[d] ?? 1.0
DomainWeight(d, opts) ==
    IF Has(opts, "domainWeights") /\ d \in DOMAIN opts.domainWeights
    THEN opts.domainWeights[d] ELSE 1

\* (A variant that drops the weight: score is the raw score.)
UnweightedItem(hit, chunks, opts) ==
    [chunk |-> chunks[hit.index + 1], raw |-> hit.score, score |-> hit.score]

\* One item of applyDomainWeights: { chunk: c, raw: score, score: score * w }
WeightedItem(hit, chunks, opts) ==
    LET c == chunks[hit.index + 1]
    IN  [chunk |-> c, raw |-> hit.score,
         score |-> hit.score * DomainWeight(ChunkDomain(c), opts)]

\* Whether a hit names a row that has no chunk: _index.chunks[index] is then
\* undefined, and reading its .meta (part_003 line 59 when the filter is on,
\* scorer.ts line 11 otherwise; both visit every hit) throws a TypeError.
ChunkMissing(rawHits, chunks) ==
    \E i \in DOMAIN rawHits : rawHits[i].index >= Len(chunks)

\* applyDomainWeights (scorer.ts, lines 4-19)
applyDomainWeights(items, chunks, opts) ==
    [i \in DOMAIN items |-> WeightedItem(items[i], chunks, opts)]

-----------------------------------------------------------------------------
(* mmr (scorer.ts, lines 22-57) *)

SameDocPenalty == 5
SameTitlePenalty == 3

\* the loop over selected: redundancy = Math.max(redundancy, ...)
RECURSIVE RedundancyFrom(_, _, _)
RedundancyFrom(cand, selected, redundancy) ==
    IF selected = <<>> THEN redundancy
    ELSE LET sel == Head(selected)
             r1 == IF sel.chunk.doc_id = cand.chunk.doc_id
                   THEN Max2(redundancy, SameDocPenalty) ELSE redundancy
             r2 == IF sel.chunk.title = cand.chunk.title
                   THEN Max2(r1, SameTitlePenalty) ELSE r1
         IN  RedundancyFrom(cand, Tail(selected), r2)

\* const mmrScore = lambda * cand.score - (1 - lambda) * redundancy, times
\* 100: lambda and redundancy are both in tenths
MmrScore(cand, selected, lambda) ==
    10 * lambda * cand.score - (10 - lambda) * RedundancyFrom(cand, selected, 0)

\* (A variant that compares with >=, so the last of several maxima wins.)
IsBetterOrEqual(mmrScore, bestIdx, bestScore) == bestIdx = 0 \/ mmrScore >= bestScore

\* if (mmrScore > bestScore); bestIdx = 0 stands for bestScore = -Infinity
IsBetter(mmrScore, bestIdx, bestScore) == bestIdx = 0 \/ mmrScore > bestScore

\* the loop over the pool: the position (1-based) of the best candidate
RECURSIVE BestFrom(_, _, _, _, _, _)
BestFrom(pool, selected, lambda, p, bestIdx, bestScore) ==
    IF p > Len(pool) THEN bestIdx
    ELSE LET mmrScore == MmrScore(pool[p], selected, lambda)
         IN  IF IsBetter(mmrScore, bestIdx, bestScore)
             THEN BestFrom(pool, selected, lambda, p + 1, p, mmrScore)
             ELSE BestFrom(pool, selected, lambda, p + 1, bestIdx, bestScore)

\* (A variant that leaves the chosen candidate in the pool.)
SpliceNothing(pool, idx) == pool

\* pool.splice(bestIdx, 1)
Splice(pool, idx) == SubSeq(pool, 1, idx - 1) \o SubSeq(pool, idx + 1, Len(pool))

\* while (selected.length < k && pool.length > 0) { ... }
RECURSIVE MmrLoop(_, _, _, _)
MmrLoop(selected, pool, lambda, k) ==
    IF Len(selected) < k /\ Len(pool) > 0
    THEN LET bestIdx == BestFrom(pool, selected, lambda, 1, 0, 0)
         IN  MmrLoop(Append(selected, pool[bestIdx]), Splice(pool, bestIdx), lambda, k)
    ELSE selected

mmr(candidates, lambda, k) == MmrLoop(<<>>, candidates, lambda, k)

\* arr.slice(0, end): a negative end counts from the end of the array
SliceTo(arr, end) ==
    LET stop == IF end < 0 THEN Max2(Len(arr) + end, 0)
                ELSE IF end > Len(arr) THEN Len(arr) ELSE end
    IN  SubSeq(arr, 1, stop)

\* Diversify with MMR, or the fallback sort (part_003, lines 67-75)
Rerank(weighted, opts) ==
    IF Has(opts, "mmr")
    THEN mmr(weighted, EffectiveLambda(opts), EffectiveK(opts))
    ELSE SliceTo(SortByScoreDesc(weighted), EffectiveK(opts))

\* applied: { domains, domainWeights, mmr: opts.mmr ? {lambda, fetchK} : undefined }
Applied(opts) ==
    [f \in (DOMAIN opts) \cap {"domains", "domainWeights", "mmr"} |->
        IF f = "mmr" THEN [lambda |-> EffectiveLambda(opts), fetchK |-> FetchK(opts)]
        ELSE opts[f]]

\* l2Normalize (part_004, lines 1-6), exact on a vector with one entry,
\* where 1 / Math.sqrt(x * x) is 1 / |x|
l2Normalize(vec) ==
    LET sq == vec[1] * vec[1]
        abs == IF vec[1] < 0 THEN -vec[1] ELSE vec[1]
    IN  <<IF sq > 0 THEN vec[1] \div abs ELSE 0>>

-----------------------------------------------------------------------------
(* One retrieve() call over a loaded index: the code of retrieve after     *)
(* await ensureIndex() (part_003, lines 43-88).  Nothing after             *)
(* await embedQuery(query) awaits, so the call is one action.              *)

\* The corpus: the chunks of index.json, chunk i being row i of the
\* embeddings.  Chunk 1 shares the title of chunk 0 and has no domain tag,
\* chunk 2 shares the document of chunk 0, chunk 3 shares both.
ChunkMeta ==
    << [doc_id |-> "d1", title |-> "Signals", domain |-> "Rail"],
       [doc_id |-> "d2", title |-> "Signals"],
       [doc_id |-> "d1", title |-> "Brakes", domain |-> "auto"],
       [doc_id |-> "d1", title |-> "Signals", domain |-> "rail"],
       [doc_id |-> "d3", title |-> "Fares", domain |-> "auto"] >>

ChunkAt(i) == ("id" :> i) @@ ChunkMeta[(i % Len(ChunkMeta)) + 1]

EmbValues == {1, 2, 3}
RetrieveQueries == {<<2>>, <<-3>>}

NoOption == [f \in {} |-> 0]
KOptions == {NoOption} \cup {"k" :> n : n \in -1 .. MaxK}
DomainsOptions ==
    {NoOption, "domains" :> <<>>, "domains" :> <<"RAIL">>,
     "domains" :> <<"auto", "rail">>, "domains" :> <<"">>}
WeightsOptions ==
    {NoOption, "domainWeights" :> ("rail" :> 2),
     "domainWeights" :> (("auto" :> 0) @@ ("" :> 2))}
MmrOptions ==
    {NoOption, "mmr" :> NoOption, "mmr" :> ("lambda" :> 0), "mmr" :> ("lambda" :> 1),
     "mmr" :> (("lambda" :> 10) @@ ("fetchK" :> 2)), "mmr" :> ("fetchK" :> 0)}
RetrievalOptions ==
    {a @@ b @@ c @@ d :
        a \in KOptions, b \in DomainsOptions, c \in WeightsOptions, d \in MmrOptions}

RetrieveInit ==
    /\ TopKIdle /\ LoadIdle /\ PromptIdle /\ RagIdle /\ ChatIdle /\ CosineIdle /\ EngineInitIdle
    /\ \E n \in 0 .. MaxChunks :
        /\ rtChunks = [i \in 1 .. n |-> ChunkAt(i - 1)]
        /\ rtEmb \in [1 .. n -> EmbValues]
    /\ rtDim = 1
    /\ rtPc = "ready"
    /\ rtQuery = <<>> /\ rtOpts = <<>> /\ rtFetchK = 0
    /\ rtRawHits = <<>> /\ rtFiltered = <<>> /\ rtWeighted = <<>>
    /\ rtTopK = <<>> /\ rtApplied = <<>>

Retrieve(embedded, opts) ==
    /\ rtPc = "ready"
    /\ LET q == l2Normalize(embedded)
           fetchK == FetchK(opts)
           top == topKCosine(q, rtEmb, rtDim, fetchK)
       IN  /\ rtQuery' = q
           /\ rtOpts' = opts
           /\ rtFetchK' = fetchK
           /\ IF top.threw
              THEN /\ rtPc' = "threw"
                   /\ UNCHANGED <<rtRawHits, rtFiltered, rtWeighted, rtTopK, rtApplied>>
              ELSE IF ChunkMissing(top.acc, rtChunks)
              THEN /\ rtPc' = "threw"
                   /\ rtRawHits' = top.acc
                   /\ UNCHANGED <<rtFiltered, rtWeighted, rtTopK, rtApplied>>
              ELSE LET filtered == DomainFilter(top.acc, rtChunks, opts)
                       weighted == applyDomainWeights(filtered, rtChunks, opts)
                   IN  /\ rtPc' = "returned"
                       /\ rtRawHits' = top.acc
                       /\ rtFiltered' = filtered
                       /\ rtWeighted' = weighted
                       /\ rtTopK' = Rerank(weighted, opts)
                       /\ rtApplied' = Applied(opts)
    /\ UNCHANGED <<rtChunks, rtDim, rtEmb>>
    /\ UNCHANGED <<tkVars, ldVars, paVars, rgVars, chVars, csVars, eiVars>>

\* The caller has the result or the rejection; the index stays loaded.
RetrieveOver ==
    /\ rtPc \in {"returned", "threw"}
    /\ rtPc' = "ready"
    /\ rtQuery' = <<>> /\ rtOpts' = <<>> /\ rtFetchK' = 0
    /\ rtRawHits' = <<>> /\ rtFiltered' = <<>> /\ rtWeighted' = <<>>
    /\ rtTopK' = <<>> /\ rtApplied' = <<>>
    /\ UNCHANGED <<rtChunks, rtDim, rtEmb>>
    /\ UNCHANGED <<tkVars, ldVars, paVars, rgVars, chVars, csVars, eiVars>>

RetrieveNext ==
    \/ \E embedded \in RetrieveQueries, opts \in RetrievalOptions : Retrieve(embedded, opts)
    \/ RetrieveOver

SpecRetrieve == RetrieveInit /\ [][RetrieveNext]_vars

-----------------------------------------------------------------------------
(* The ranker's contract, stated over the result of a retrieve call *)

Returned == rtPc = "returned"
FilterOn == Has(rtOpts, "domains") /\ Len(rtOpts.domains) > 0
MmrOn == Has(rtOpts, "mmr")
RawDomain(c) == IF Has(c, "domain") THEN c.domain ELSE ""
Range(seq) == {seq[i] : i \in DOMAIN seq}

\* C6 (as amended): under a non-empty domains list every returned
\* candidate's lower-cased chunk domain (a missing tag counting as "") is
\* in the lower-cased allow-set, on the MMR path and on the plain-sort path.
C6_ReturnedDomainsAllowed ==
    (Returned /\ FilterOn) =>
        \A i \in DOMAIN rtTopK :
            \E j \in DOMAIN rtOpts.domains :
                toLowerCase(RawDomain(rtTopK[i].chunk)) = toLowerCase(rtOpts.domains[j])

\* C6 (as claimed): the above, and a chunk without a domain tag is never
\* returned under a non-empty filter.
C6_UntaggedNeverReturned ==
    (Returned /\ FilterOn) =>
        \A i \in DOMAIN rtTopK :
            /\ Has(rtTopK[i].chunk, "domain")
            /\ \E j \in DOMAIN rtOpts.domains :
                toLowerCase(RawDomain(rtTopK[i].chunk)) = toLowerCase(rtOpts.domains[j])

\* A call on the MMR path whose filter ["RAIL"] dropped some hits and kept
\* the chunk tagged "Rail".
C6_Witness ==
    /\ Returned /\ FilterOn /\ MmrOn
    /\ rtOpts.domains = <<"RAIL">>
    /\ Len(rtFiltered) < Len(rtRawHits)
    /\ \E i \in DOMAIN rtTopK : RawDomain(rtTopK[i].chunk) = "Rail"

\* C7: for every candidate pool and every k >= 1 the list mmr returns holds
\* no chunk twice and has length min(k, size of the filtered pool).
C7_MmrDistinctAndSized ==
    (Returned /\ MmrOn /\ EffectiveK(rtOpts) >= 1) =>
        /\ \A i, j \in DOMAIN rtTopK : rtTopK[i].chunk.id = rtTopK[j].chunk.id => i = j
        /\ Len(rtTopK) = (IF EffectiveK(rtOpts) < Len(rtFiltered)
                          THEN EffectiveK(rtOpts) ELSE Len(rtFiltered))

\* A filtered pool of two candidates, smaller than k = 3, returned whole.
C7_Witness ==
    /\ Returned /\ MmrOn /\ FilterOn
    /\ EffectiveK(rtOpts) = 3
    /\ Len(rtFiltered) = 2
    /\ Len(rtTopK) = 2

\* The redundancy of a candidate against the selected set, as the claim
\* states it.
RefRedundancy(cand, selected) ==
    IF \E x \in Range(selected) : x.chunk.doc_id = cand.chunk.doc_id THEN SameDocPenalty
    ELSE IF \E x \in Range(selected) : x.chunk.title = cand.chunk.title THEN SameTitlePenalty
    ELSE 0

\* lambda * weightedScore - (1 - lambda) * redundancy, times 100
RefMmrScore(cand, selected, lambda) ==
    10 * lambda * cand.score - (10 - lambda) * RefRedundancy(cand, selected)

\* The positions of the pool (weighted, in order) not selected before step i
Remaining(i) ==
    {j \in DOMAIN rtWeighted : rtWeighted[j] \notin Range(SubSeq(rtTopK, 1, i - 1))}

\* C8: at each step of mmr the candidate appended maximizes
\* lambda * weightedScore - (1 - lambda) * redundancy among the candidates
\* not yet selected, and is the earliest of the pool among the maximizers.
C8_MmrPicksFirstMaximizer ==
    (Returned /\ MmrOn) =>
        \A i \in DOMAIN rtTopK :
            LET sel == SubSeq(rtTopK, 1, i - 1)
                lam == EffectiveLambda(rtOpts)
                best == RefMmrScore(rtTopK[i], sel, lam)
            IN  \E p \in Remaining(i) :
                    /\ rtWeighted[p] = rtTopK[i]
                    /\ \A j \in Remaining(i) :
                        /\ RefMmrScore(rtWeighted[j], sel, lam) <= best
                        /\ RefMmrScore(rtWeighted[j], sel, lam) = best => p <= j

\* A second step, with 0 < lambda < 1, that passed over a candidate of
\* greater weighted score because of its redundancy with the first choice.
C8_Witness ==
    /\ Returned /\ MmrOn
    /\ EffectiveLambda(rtOpts) \in 1 .. 9
    /\ Len(rtTopK) >= 2
    /\ \E j \in Remaining(2) :
        /\ rtWeighted[j].score > rtTopK[2].score
        /\ RefRedundancy(rtWeighted[j], SubSeq(rtTopK, 1, 1))
              > RefRedundancy(rtTopK[2], SubSeq(rtTopK, 1, 1))

\* The weight of a domain as the claim states it: the domainWeights entry
\* of the (lower-cased) domain, 1 without domainWeights or without an entry.
RefWeight(c) ==
    IF ~Has(rtOpts, "domainWeights") THEN 1
    ELSE IF toLowerCase(RawDomain(c)) \in DOMAIN rtOpts.domainWeights
         THEN rtOpts.domainWeights[toLowerCase(RawDomain(c))]
         ELSE 1

WeightsApplied ==
    /\ Len(rtWeighted) = Len(rtFiltered)
    /\ \A j \in DOMAIN rtFiltered :
        LET c == rtChunks[rtFiltered[j].index + 1]
            cosine == RowScore(rtQuery, rtEmb, rtDim, rtFiltered[j].index)
        IN  /\ rtWeighted[j].chunk = c
            /\ rtWeighted[j].raw = cosine
            /\ rtWeighted[j].score = cosine * RefWeight(c)

TopIsHeaviest ==
    /\ Len(rtTopK) = 1
    /\ rtTopK[1] \in Range(rtWeighted)
    /\ \A j \in DOMAIN rtWeighted : rtWeighted[j].score <= rtTopK[1].score

\* C9 (as amended): every candidate that passes the filter gets
\* score = raw * w with raw the cosine score and w the domainWeights entry
\* of its lower-cased domain, 1 by default; with k = 1 the returned candidate
\* has the greatest weighted score of the pool on the plain-sort path, and on
\* the MMR path when lambda > 0.
C9_WeightedScoreRanks ==
    Returned =>
        /\ WeightsApplied
        /\ (EffectiveK(rtOpts) = 1 /\ rtWeighted # <<>>
              /\ (MmrOn => EffectiveLambda(rtOpts) > 0)) => TopIsHeaviest

\* C9 (as claimed): the same with no condition on lambda.
C9_WeightedScoreRanksAnyLambda ==
    Returned =>
        /\ WeightsApplied
        /\ (EffectiveK(rtOpts) = 1 /\ rtWeighted # <<>>) => TopIsHeaviest

\* With k = 1 on the MMR path, a weighted chunk returned ahead of a chunk of
\* greater raw score.
C9_Witness ==
    /\ Returned /\ MmrOn /\ Has(rtOpts, "domainWeights")
    /\ EffectiveK(rtOpts) = 1
    /\ Len(rtTopK) = 1
    /\ \E j \in DOMAIN rtWeighted :
        /\ rtWeighted[j].raw > rtTopK[1].raw
        /\ rtWeighted[j].score < rtTopK[1].score

\* C10: a retrieve call with k <= 0 fails with a configuration error before
\* any scoring; in particular no call that scored rows of the index returns
\* a RetrievalResult for a k <= 0.
C10_NonPositiveKNeverReturns ==
    (Returned /\ rtRawHits # <<>>) => EffectiveK(rtOpts) > 0

-----------------------------------------------------------------------------
(* The prompt assembler: buildAugmentedPrompt (augment.ts, lines 11-42) *)

Digits == "0123456789"
DigitChar(d) == CharAt(Digits, d + 1)

\* the decimal digits of a natural number
RECURSIVE NatToString(_)
NatToString(n) ==
    IF n < 10 THEN DigitChar(n) ELSE NatToString(n \div 10) \o DigitChar(n % 10)

\* score.toFixed(3), for a score given in thousandths
toFixed3(milli) ==
    LET abs == IF milli < 0 THEN -milli ELSE milli
        frac == abs % 1000
    IN  (IF milli < 0 THEN "-" ELSE "") \o NatToString(abs \div 1000) \o "."
            \o DigitChar(frac \div 100) \o DigitChar((frac \div 10) % 10) \o DigitChar(frac % 10)

IsWhiteSpace(ch) == ch \in {" ", "\n", "\t", "\r"}

RECURSIVE TrimStart(_)
TrimStart(str) ==
    IF Len(str) > 0 /\ IsWhiteSpace(CharAt(str, 1))
    THEN TrimStart(SubSeq(str, 2, Len(str))) ELSE str

RECURSIVE TrimEnd(_)
TrimEnd(str) ==
    IF Len(str) > 0 /\ IsWhiteSpace(CharAt(str, Len(str)))
    THEN TrimEnd(SubSeq(str, 1, Len(str) - 1)) ELSE str

\* String.prototype.trim
Trim(str) == TrimEnd(TrimStart(str))

\* lines.join("\n\n")
RECURSIVE JoinBlocks(_)
JoinBlocks(lines) ==
    IF lines = <<>> THEN ""
    ELSE IF Len(lines) = 1 THEN lines[1]
    ELSE lines[1] \o "\n\n" \o JoinBlocks(Tail(lines))

\* `### [${chunk.title}] (score=${score.toFixed(3)})\n${chunk.text}`
CiteBlock(r) ==
    "### [" \o r.chunk.title \o "] (score=" \o toFixed3(r.score) \o ")\n" \o r.chunk.text

CiteBlockLines(retrieved) == [i \in DOMAIN retrieved |-> CiteBlock(retrieved[i])]

\* `${header}\n\n${lines.join("\n\n")}\n\nUser question: ${userQuery}\n${footer}`.trim()
Assembly(header, lines, userQuery, footer) ==
    Trim(header \o "\n\n" \o JoinBlocks(lines) \o "\n\nUser question: " \o userQuery
            \o "\n" \o footer)

DefaultCharsPerToken == 4
DefaultHeader == "Use the following context to answer the question. Cite sources by title."
TruncationMarker == "\n...[truncated]"
HardSliceMargin == 20

CharsPerToken(opts) == IF Has(opts, "charsPerToken") THEN opts.charsPerToken ELSE DefaultCharsPerToken
MaxChars(opts) == opts.maxTokens * CharsPerToken(opts)
Header(opts) == IF Has(opts, "header") THEN opts.header ELSE DefaultHeader
Footer(opts) == IF Has(opts, "footer") THEN opts.footer ELSE ""

\* (A variant that drops the first block instead of the last.)
PopFront(lines) == Tail(lines)

\* lines.pop()
Pop(lines) == SubSeq(lines, 1, Len(lines) - 1)

\* while (lines.length > 1) { lines.pop(); ... if (candidate.length <= maxChars)
\* return candidate; }: the candidate returned, or "none" is FALSE
RECURSIVE DropLoop(_, _, _, _, _)
DropLoop(lines, header, userQuery, footer, maxChars) ==
    IF Len(lines) > 1
    THEN LET popped == Pop(lines)
             candidate == Assembly(header, popped, userQuery, footer)
         IN  IF Len(candidate) <= maxChars
             THEN [found |-> TRUE, candidate |-> candidate]
             ELSE DropLoop(popped, header, userQuery, footer, maxChars)
    ELSE [found |-> FALSE, candidate |-> ""]

\* base.slice(0, maxChars - 20) + "\n...[truncated]"
HardSlice(base, maxChars) == SliceTo(base, maxChars - HardSliceMargin) \o TruncationMarker

buildAugmentedPrompt(userQuery, retrieved, opts) ==
    LET maxChars == MaxChars(opts)
        lines == CiteBlockLines(retrieved)
        base == Assembly(Header(opts), lines, userQuery, Footer(opts))
        dropped == DropLoop(lines, Header(opts), userQuery, Footer(opts), maxChars)
    IN  IF Len(base) <= maxChars THEN base
        ELSE IF dropped.found THEN dropped.candidate
        ELSE HardSlice(base, maxChars)

\* The candidates a prompt is assembled from, and the options of a call
PromptCands ==
    { [chunk |-> [title |-> "A", text |-> "aaaa"], score |-> 500],
      [chunk |-> [title |-> "Bb", text |-> "bbbbbbbbbbbb"], score |-> -1250],
      [chunk |-> [title |-> "C", text |-> "c c"], score |-> 12004] }
PromptQueries == {"q", "why not?"}
BudgetOptions ==
    {("maxTokens" :> t) @@ c @@ h @@ f :
        t \in 0 .. MaxTokens,
        c \in {NoOption, "charsPerToken" :> 1},
        h \in {NoOption, "header" :> "Ctx:"},
        f \in {NoOption, "footer" :> "Be brief."}}

PromptInit ==
    /\ TopKIdle /\ LoadIdle /\ RetrieveIdle /\ RagIdle /\ ChatIdle /\ CosineIdle /\ EngineInitIdle
    /\ paQuery \in PromptQueries
    /\ paRetrieved \in SeqsUpTo(PromptCands, MaxCands)
    /\ paOpts \in BudgetOptions
    /\ paOut = ""
    /\ paPc = "ready"

BuildPrompt ==
    /\ paPc = "ready"
    /\ paOut' = buildAugmentedPrompt(paQuery, paRetrieved, paOpts)
    /\ paPc' = "done"
    /\ UNCHANGED <<paQuery, paRetrieved, paOpts>>
    /\ UNCHANGED <<tkVars, ldVars, rtVars, rgVars, chVars, csVars, eiVars>>

PromptNext == BuildPrompt

SpecPrompt == PromptInit /\ [][PromptNext]_vars

\* C4: for every query, candidate list and budget >= 0 the string returned
\* is at most maxTokens * charsPerToken plus the truncation marker long.
C4_LengthWithinBudget ==
    paPc = "done" => Len(paOut) <= MaxChars(paOpts) + Len(TruncationMarker)

\* The same for the budgets of at least 20 characters.
LengthWithinBudgetFrom20 ==
    (paPc = "done" /\ MaxChars(paOpts) >= HardSliceMargin) =>
        Len(paOut) <= MaxChars(paOpts) + Len(TruncationMarker)

\* Whether the assembly of the first m blocks fits the budget
PrefixFits(m) ==
    Len(Assembly(Header(paOpts), SubSeq(CiteBlockLines(paRetrieved), 1, m),
                 paQuery, Footer(paOpts))) <= MaxChars(paOpts)

\* The case of C5: the full assembly is over budget, a prefix of 1 .. n-1
\* blocks fits
SomePrefixFits ==
    /\ ~PrefixFits(Len(paRetrieved))
    /\ \E m \in 1 .. Len(paRetrieved) - 1 : PrefixFits(m)

\* C5: when the full assembly is over budget and some non-empty prefix fits,
\* the result is header + the blocks of candidates 1..m in rank order + the
\* question + footer (trimmed as the full assembly is), m the largest of
\* 1 .. n-1 that fits: blocks only go from the end.
C5_DropsFromTheEnd ==
    (paPc = "done" /\ SomePrefixFits) =>
        LET m == CHOOSE x \in 1 .. Len(paRetrieved) - 1 :
                    /\ PrefixFits(x)
                    /\ \A y \in 1 .. Len(paRetrieved) - 1 : PrefixFits(y) => y <= x
        IN  paOut = Assembly(Header(paOpts),
                             [i \in 1 .. m |-> CiteBlock(paRetrieved[i])],
                             paQuery, Footer(paOpts))

\* Three different candidates, of which the budget keeps the first two.
C5_Witness ==
    /\ paPc = "done" /\ SomePrefixFits
    /\ Len(paRetrieved) = 3
    /\ paRetrieved[1] # paRetrieved[2] /\ paRetrieved[2] # paRetrieved[3]
    /\ PrefixFits(2)

-----------------------------------------------------------------------------
(* One call of topKCosine, row by row *)

TopKInit ==
    /\ LoadIdle /\ RetrieveIdle /\ PromptIdle /\ RagIdle /\ ChatIdle /\ CosineIdle /\ EngineInitIdle
    /\ tkQuery \in QueryVectors
    /\ tkMatrix \in SeqsUpTo(MatrixValues, MaxMatrixLen)
    /\ tkDim \in Dims
    /\ tkK \in 0 .. MaxK
    /\ tkI = 0
    /\ tkAcc = <<>>
    /\ tkPc = "scan"

\* for (let i = 0; i < N; i++) { ... }: one row
TopKScanRow ==
    /\ tkPc = "scan"
    /\ tkI < RowCount(tkMatrix, tkDim)
    /\ ~RowThrows(tkAcc, tkK)
    /\ tkAcc' = TopKRow(tkAcc, tkK, tkI, RowScore(tkQuery, tkMatrix, tkDim, tkI))
    /\ tkI' = tkI + 1
    /\ UNCHANGED <<tkQuery, tkMatrix, tkDim, tkK, tkPc>>
    /\ UNCHANGED <<ldVars, rtVars, paVars, rgVars, chVars, csVars, eiVars>>

\* acc[k - 1] is undefined: reading its score throws a TypeError
TopKThrow ==
    /\ tkPc = "scan"
    /\ tkI < RowCount(tkMatrix, tkDim)
    /\ RowThrows(tkAcc, tkK)
    /\ tkPc' = "threw"
    /\ UNCHANGED <<tkQuery, tkMatrix, tkDim, tkK, tkI, tkAcc>>
    /\ UNCHANGED <<ldVars, rtVars, paVars, rgVars, chVars, csVars, eiVars>>

\* return acc
TopKReturn ==
    /\ tkPc = "scan"
    /\ tkI >= RowCount(tkMatrix, tkDim)
    /\ tkPc' = "done"
    /\ UNCHANGED <<tkQuery, tkMatrix, tkDim, tkK, tkI, tkAcc>>
    /\ UNCHANGED <<ldVars, rtVars, paVars, rgVars, chVars, csVars, eiVars>>

TopKNext == TopKScanRow \/ TopKThrow \/ TopKReturn

SpecTopK == TopKInit /\ [][TopKNext]_vars

-----------------------------------------------------------------------------
(* The reference of the similarity engine's contract: score every row,     *)
(* order by descending score with equal scores in row order, keep k.       *)

AllScored(query, matrix, dim) ==
    [r \in 1 .. RowCount(matrix, dim) |->
        [index |-> r - 1, score |-> RowScore(query, matrix, dim, r - 1)]]

Precedes(a, b) == a.score > b.score \/ (a.score = b.score /\ a.index < b.index)

RankIn(all, e) == Cardinality({j \in DOMAIN all : Precedes(all[j], e)})

FullSortSlice(all, k) ==
    [r \in 1 .. (IF k < Len(all) THEN k ELSE Len(all)) |->
        CHOOSE e \in {all[j] : j \in DOMAIN all} : RankIn(all, e) = r - 1]

\* C1: for every query, matrix, dim and k >= 1, the list topKCosine returns
\* is the full list of scored rows sorted by descending score (equal scores
\* in row order) and cut to its first k entries, also when N < k.
C1_TopKEqualsSortSlice ==
    (tkPc = "done" /\ tkK >= 1) =>
        tkAcc = FullSortSlice(AllScored(tkQuery, tkMatrix, tkDim), tkK)

\* The same statement for the calls that fill the list (N >= k).
TopKEqualsSortSliceWhenFull ==
    (tkPc = "done" /\ tkK >= 1 /\ RowCount(tkMatrix, tkDim) >= tkK) =>
        tkAcc = FullSortSlice(AllScored(tkQuery, tkMatrix, tkDim), tkK)

-----------------------------------------------------------------------------
(* The lexical index of web/src/rag.ts (src/unnamed/part_000, lines        *)
(* 92-203).                                                                *)
(*                                                                         *)
(* A JavaScript Map keeps its entries in insertion order: the model keeps  *)
(* a Map as the sequence of its <<key, value>> entries, in that order.     *)
(*                                                                         *)
(* Numbers.  Weights are kept in thousandths and products of two weights   *)
(* in millionths.  A JavaScript number is a binary float whose sums and    *)
(* products are rounded to the nearest representable value, ties to even;  *)
(* the sum of cosine is rounded the same way, to MantissaBits significant  *)
(* bits where the source has 53.                                           *)

MapHas(m, k) == \E i \in DOMAIN m : m[i][1] = k

\* m.get(k) ?? dflt
MapGetOr(m, k, dflt) ==
    IF MapHas(m, k) THEN m[CHOOSE i \in DOMAIN m : m[i][1] = k][2] ELSE dflt

\* m.set(k, v): a key the map has keeps its place
MapSet(m, k, v) ==
    IF MapHas(m, k) THEN [i \in DOMAIN m |-> IF m[i][1] = k THEN <<k, v>> ELSE m[i]]
    ELSE Append(m, <<k, v>>)

\* [a-z0-9]
TokenChars ==
    {CharAt(LowerLetters, i) : i \in 1 .. Len(LowerLetters)}
        \cup {CharAt(Digits, i) : i \in 1 .. Len(Digits)}

\* .replace(/[^a-z0-9\s]/g, " ").split(/\s+/).filter(Boolean): the maximal
\* runs of [a-z0-9]
RECURSIVE TokensFrom(_, _, _)
TokensFrom(str, cur, out) ==
    IF Len(str) = 0 THEN (IF cur = "" THEN out ELSE Append(out, cur))
    ELSE LET ch == CharAt(str, 1)
             rest == SubSeq(str, 2, Len(str))
         IN  IF ch \in TokenChars THEN TokensFrom(rest, cur \o ch, out)
             ELSE TokensFrom(rest, "", IF cur = "" THEN out ELSE Append(out, cur))

tokenize(s) == TokensFrom(toLowerCase(s), "", <<>>)

\* for (const t of tokens) m.set(t, (m.get(t) ?? 0) + 1)
RECURSIVE TfFrom(_, _)
TfFrom(tokens, m) ==
    IF tokens = <<>> THEN m
    ELSE TfFrom(Tail(tokens), MapSet(m, Head(tokens), MapGetOr(m, Head(tokens), 0) + 1))

tf(tokens) == TfFrom(tokens, <<>>)

\* Math.sqrt, rounded down to an integer
RECURSIVE SqrtFrom(_, _)
SqrtFrom(n, r) ==
    LET next == (r + n \div r) \div 2
    IN  IF next >= r THEN r ELSE SqrtFrom(n, next)

Sqrt(n) == IF n = 0 THEN 0 ELSE SqrtFrom(n, n)

RECURSIVE SumSquares(_)
SumSquares(v) == IF v = <<>> THEN 0 ELSE Head(v)[2] * Head(v)[2] + SumSquares(Tail(v))

\* normalize: val / (Math.sqrt(sum) || 1), values in thousandths
normalize(v) ==
    LET root == Sqrt(SumSquares(v))
        norm == IF root = 0 THEN 1000 ELSE root
    IN  [i \in DOMAIN v |-> <<v[i][1], (v[i][2] * 1000) \div norm>>]

\* the rounding of a sum or product to MantissaBits significant bits
RECURSIVE BitLength(_)
BitLength(n) == IF n = 0 THEN 0 ELSE 1 + BitLength(n \div 2)

RECURSIVE Pow2(_)
Pow2(e) == IF e = 0 THEN 1 ELSE 2 * Pow2(e - 1)

RoundHalfEven(n, unit) ==
    LET q == n \div unit
        r == n % unit
    IN  IF 2 * r > unit \/ (2 * r = unit /\ q % 2 = 1) THEN (q + 1) * unit ELSE q * unit

Fl(x) ==
    LET abs == IF x < 0 THEN -x ELSE x
        e == BitLength(abs) - MantissaBits
    IN  IF e <= 0 THEN x
        ELSE (IF x < 0 THEN -1 ELSE 1) * RoundHalfEven(abs, Pow2(e))

\* for (const [k, va] of small) { const vb = big.get(k); if (vb) s += va * vb; }
RECURSIVE CosineFrom(_, _, _, _)
CosineFrom(small, big, i, s) ==
    IF i > Len(small) THEN s
    ELSE LET va == small[i][2]
             vb == MapGetOr(big, small[i][1], 0)
         IN  CosineFrom(small, big, i + 1, IF vb # 0 THEN Fl(s + Fl(va * vb)) ELSE s)

\* cosine (part_000, lines 121-130), in millionths
cosine(a, b) ==
    IF Len(a) < Len(b) THEN CosineFrom(a, b, 1, 0) ELSE CosineFrom(b, a, 1, 0)

\* Math.log of 1 .. 8, in thousandths
LnMilli == <<0, 693, 1099, 1386, 1609, 1792, 1946, 2079>>

\* Math.log((1 + N) / (1 + n)) + 1, in thousandths
Idf(N, n) == LnMilli[1 + N] - LnMilli[1 + n] + 1000

\* for (const k of tfi.keys()) df.set(k, (df.get(k) ?? 0) + 1)
RECURSIVE DfFrom(_, _)
DfFrom(tfi, df) ==
    IF tfi = <<>> THEN df
    ELSE DfFrom(Tail(tfi), MapSet(df, Head(tfi)[1], MapGetOr(df, Head(tfi)[1], 0) + 1))

\* the loop over docs (lines 143-149)
RECURSIVE DocsLoop(_, _)
DocsLoop(docs, acc) ==
    IF docs = <<>> THEN acc
    ELSE LET d == Head(docs)
             tfi == tf(tokenize(d.text))
         IN  DocsLoop(Tail(docs),
                      [byId |-> MapSet(acc.byId, d.id, d),
                       docTfs |-> MapSet(acc.docTfs, d.id, tfi),
                       df |-> DfFrom(tfi, acc.df)])

\* v.set(k, f * (idf.get(k) ?? 0)) for [k, f] of tfi
TfIdf(tfi, idf) ==
    [i \in DOMAIN tfi |-> <<tfi[i][1], tfi[i][2] * MapGetOr(idf, tfi[i][1], 0)>>]

\* buildIndex (part_000, lines 138-163)
buildIndex(docs) ==
    LET loop == DocsLoop(docs, [byId |-> <<>>, docTfs |-> <<>>, df |-> <<>>])
        N == Len(docs)
        idf == [i \in DOMAIN loop.df |-> <<loop.df[i][1], Idf(N, loop.df[i][2])>>]
    IN  [idf |-> idf,
         docVecs |-> [i \in DOMAIN loop.docTfs |->
                        <<loop.docTfs[i][1], normalize(TfIdf(loop.docTfs[i][2], idf))>>],
         byId |-> loop.byId]

\* queryVec (part_000, lines 165-170)
queryVec(q, idf) == normalize(TfIdf(tf(tokenize(q)), idf))

\* topK (part_000, lines 172-185)
topK(q, index, k) ==
    LET qv == queryVec(q, index.idf)
        scored == [i \in DOMAIN index.docVecs |->
                     [doc |-> MapGetOr(index.byId, index.docVecs[i][1], Null),
                      score |-> cosine(qv, index.docVecs[i][2])]]
    IN  SliceTo(SortByScoreDesc(scored), k)

\* score.toFixed(3) of a score in millionths: the nearest thousandth, the
\* larger one of two equally near
ScoreToFixed3(score) ==
    IF score < 0 THEN "-" \o toFixed3((500 - score) \div 1000)
    ELSE toFixed3((score + 500) \div 1000)

\* `- [${doc.title} | ${doc.source} | score=${score.toFixed(3)}] ${doc.text}\n`
ContextChunk(hit) ==
    "- [" \o hit.doc.title \o " | " \o hit.doc.source \o " | score="
        \o ScoreToFixed3(hit.score) \o "] " \o hit.doc.text \o "\n"

\* the loop of makeContext with `continue` for `break`
RECURSIVE ContextLoopSkipping(_, _, _, _)
ContextLoopSkipping(hits, i, ctx, maxChars) ==
    IF i > Len(hits) THEN ctx
    ELSE LET chunk == ContextChunk(hits[i])
         IN  IF Len(ctx) + Len(chunk) > maxChars
             THEN ContextLoopSkipping(hits, i + 1, ctx, maxChars)
             ELSE ContextLoopSkipping(hits, i + 1, ctx \o chunk, maxChars)

makeContextSkipping(q, index, k, maxChars) ==
    Trim(ContextLoopSkipping(topK(q, index, k), 1, "", maxChars))

\* for (const { doc, score } of hits) {
\*   if (ctx.length + chunk.length > maxChars) break; ctx += chunk; }
RECURSIVE ContextLoop(_, _, _, _)
ContextLoop(hits, i, ctx, maxChars) ==
    IF i > Len(hits) THEN ctx
    ELSE LET chunk == ContextChunk(hits[i])
         IN  IF Len(ctx) + Len(chunk) > maxChars THEN ctx
             ELSE ContextLoop(hits, i + 1, ctx \o chunk, maxChars)

\* makeContext (part_000, lines 187-203)
makeContext(q, index, k, maxChars) ==
    Trim(ContextLoop(topK(q, index, k), 1, "", maxChars))

\* userWithContext of send() (src/web/src/App.tsx, lines 89-99)
UserWithContext(userRaw, ctx) ==
    IF ctx # ""
    THEN "Use the transportation context below to answer the question. "
            \o "If the context is insufficient, say so and answer best-effort.\n\n"
            \o "### Context\n" \o ctx \o "\n\n"
            \o "### Question\n" \o userRaw
    ELSE userRaw

-----------------------------------------------------------------------------
(* The module-level index of the application (const RAG_INDEX =            *)
(* buildIndex(docs), part_002 line 16) and the queries made of it.         *)

DocTexts == {"", "Rail signal", "signal, auto", "rail rail 4"}
LexQueries == {"", "signal", "Rail auto", "bus"}

DocAt(i, text) ==
    [id |-> "d" \o DigitChar(i), title |-> "T" \o DigitChar(i), source |-> "web", text |-> text]

RagInit ==
    /\ TopKIdle /\ LoadIdle /\ RetrieveIdle /\ PromptIdle /\ ChatIdle /\ CosineIdle /\ EngineInitIdle
    /\ \E n \in 0 .. MaxDocs : \E texts \in [1 .. n -> DocTexts] :
        rgDocs = [i \in 1 .. n |-> DocAt(i, texts[i])]
    /\ rgIndex = <<>> /\ rgQuery = "" /\ rgK = 0 /\ rgHits = <<>>
    /\ rgMaxChars = 0 /\ rgCtx = "" /\ rgUser = ""
    /\ rgPc = "start"

BuildIndex ==
    /\ rgPc = "start"
    /\ rgIndex' = buildIndex(rgDocs)
    /\ rgPc' = "built"
    /\ UNCHANGED <<rgDocs, rgQuery, rgK, rgHits, rgMaxChars, rgCtx, rgUser>>
    /\ UNCHANGED <<tkVars, ldVars, rtVars, paVars, chVars, csVars, eiVars>>

TopK(q, k) ==
    /\ rgPc = "built"
    /\ rgQuery' = q
    /\ rgK' = k
    /\ rgHits' = topK(q, rgIndex, k)
    /\ rgPc' = "queried"
    /\ UNCHANGED <<rgDocs, rgIndex, rgMaxChars, rgCtx, rgUser>>
    /\ UNCHANGED <<tkVars, ldVars, rtVars, paVars, chVars, csVars, eiVars>>

\* The caller has the list; the index stays.
TopKOver ==
    /\ rgPc = "queried"
    /\ rgQuery' = "" /\ rgK' = 0 /\ rgHits' = <<>>
    /\ rgPc' = "built"
    /\ UNCHANGED <<rgDocs, rgIndex, rgMaxChars, rgCtx, rgUser>>
    /\ UNCHANGED <<tkVars, ldVars, rtVars, paVars, chVars, csVars, eiVars>>

\* the budgets of characters asked for; the application asks for 1200
MaxCharsValues == {0, 30, 39, 70, 1200}

MakeContext(q, k, maxChars) ==
    /\ rgPc = "built"
    /\ rgQuery' = q
    /\ rgK' = k
    /\ rgMaxChars' = maxChars
    /\ rgHits' = topK(q, rgIndex, k)
    /\ rgCtx' = makeContext(q, rgIndex, k, maxChars)
    /\ rgPc' = "made"
    /\ UNCHANGED <<rgDocs, rgIndex, rgUser>>
    /\ UNCHANGED <<tkVars, ldVars, rtVars, paVars, chVars, csVars, eiVars>>

\* send() goes on with a question that is not empty (App.tsx, lines 85-99)
ComposeUser ==
    /\ rgPc = "made"
    /\ rgQuery # ""
    /\ rgUser' = UserWithContext(rgQuery, rgCtx)
    /\ rgPc' = "composed"
    /\ UNCHANGED <<rgDocs, rgIndex, rgQuery, rgK, rgHits, rgMaxChars, rgCtx>>
    /\ UNCHANGED <<tkVars, ldVars, rtVars, paVars, chVars, csVars, eiVars>>

\* The caller has the string; the index stays.
MakeContextOver ==
    /\ rgPc \in {"made", "composed"}
    /\ rgQuery' = "" /\ rgK' = 0 /\ rgHits' = <<>>
    /\ rgMaxChars' = 0 /\ rgCtx' = "" /\ rgUser' = ""
    /\ rgPc' = "built"
    /\ UNCHANGED <<rgDocs, rgIndex>>
    /\ UNCHANGED <<tkVars, ldVars, rtVars, paVars, chVars, csVars, eiVars>>

RagNext ==
    \/ BuildIndex
    \/ \E q \in LexQueries, k \in 0 .. MaxK : TopK(q, k)
    \/ TopKOver
    \/ \E q \in LexQueries, k \in 0 .. MaxK, maxChars \in MaxCharsValues :
            MakeContext(q, k, maxChars)
    \/ ComposeUser
    \/ MakeContextOver

SpecRag == RagInit /\ [][RagNext]_vars

\* C11: building the index from zero documents fails (EmptyCorpusError):
\* no index is ever built from an empty document list.
C11_EmptyCorpusNeverBuilt == rgPc \in {"built", "queried"} => Len(rgDocs) > 0

-----------------------------------------------------------------------------
(* The two retrieval paths over a corpus with nothing in it: retrieve over *)
(* an index.json with no chunk and an empty embeddings.f32, and topK over  *)
(* the index built from no document.                                       *)

EmptyCorpusInit ==
    /\ TopKIdle /\ LoadIdle /\ PromptIdle /\ ChatIdle /\ CosineIdle /\ EngineInitIdle
    /\ rtChunks = <<>> /\ rtEmb = <<>> /\ rtDim = 1
    /\ rtPc = "ready"
    /\ rtQuery = <<>> /\ rtOpts = <<>> /\ rtFetchK = 0
    /\ rtRawHits = <<>> /\ rtFiltered = <<>> /\ rtWeighted = <<>>
    /\ rtTopK = <<>> /\ rtApplied = <<>>
    /\ rgDocs = <<>>
    /\ rgIndex = <<>> /\ rgQuery = "" /\ rgK = 0 /\ rgHits = <<>>
    /\ rgMaxChars = 0 /\ rgCtx = "" /\ rgUser = ""
    /\ rgPc = "start"

EmptyCorpusNext ==
    \/ RetrieveNext
    \/ BuildIndex
    \/ \E q \in LexQueries, k \in 0 .. MaxK : TopK(q, k)
    \/ TopKOver

SpecEmptyCorpus == EmptyCorpusInit /\ [][EmptyCorpusNext]_vars

\* C12: over a corpus with zero chunks, for every query and every k >= 1,
\* top-K selection returns the empty list and throws nothing, and so do the
\* filter, the weighting and the diversification (or the plain sort) that
\* follow; the lexical topK over an index without documents returns the
\* empty list as well.
C12_EmptyCorpusReturnsEmpty ==
    /\ (rtPc \in {"returned", "threw"} /\ rtChunks = <<>> /\ EffectiveK(rtOpts) >= 1)
        => /\ rtPc = "returned"
           /\ rtRawHits = <<>> /\ rtFiltered = <<>> /\ rtWeighted = <<>>
           /\ rtTopK = <<>>
    /\ (rgPc = "queried" /\ rgDocs = <<>> /\ rgK >= 1) => rgHits = <<>>

\* Both paths have answered over the empty corpus, retrieve with a domain
\* filter, domain weights and diversification all requested.
C12_Witness ==
    /\ rtPc = "returned" /\ rtChunks = <<>> /\ EffectiveK(rtOpts) >= 1
    /\ FilterOn /\ MmrOn /\ Has(rtOpts, "domainWeights")
    /\ rtTopK = <<>>
    /\ rgPc = "queried" /\ rgDocs = <<>> /\ rgK >= 1 /\ rgQuery # ""
    /\ rgHits = <<>>

-----------------------------------------------------------------------------
(* retrieve over index files that disagree: embeddings.f32 holds more or   *)
(* fewer rows than index.json has chunks.  ensureIndex (part_003, lines    *)
(* 9-21) stores whatever the two responses hold, so such a pair is loaded  *)
(* like any other.                                                         *)

MismatchedEmbValues == {1, 2}

MismatchedInit ==
    /\ TopKIdle /\ LoadIdle /\ PromptIdle /\ RagIdle /\ ChatIdle /\ CosineIdle /\ EngineInitIdle
    /\ \E n \in 0 .. MaxChunks, m \in 0 .. MaxChunks :
        /\ m # n
        /\ rtChunks = [i \in 1 .. n |-> ChunkAt(i - 1)]
        /\ rtEmb \in [1 .. m -> MismatchedEmbValues]
    /\ rtDim = 1
    /\ rtPc = "ready"
    /\ rtQuery = <<>> /\ rtOpts = <<>> /\ rtFetchK = 0
    /\ rtRawHits = <<>> /\ rtFiltered = <<>> /\ rtWeighted = <<>>
    /\ rtTopK = <<>> /\ rtApplied = <<>>

SpecRetrieveMismatched == MismatchedInit /\ [][RetrieveNext]_vars

\* C13: when the embedding array's length differs from chunk_count * dim,
\* the load fails with an error the caller of retrieve sees, and no candidate
\* is scored or mapped to a chunk for that query.
C13_MismatchFailsBeforeScoring ==
    (rtPc \in {"returned", "threw"} /\ Len(rtEmb) # Len(rtChunks) * rtDim)
        => (rtPc = "threw" /\ rtRawHits = <<>>)

-----------------------------------------------------------------------------
(* The chat application (src/unnamed/part_001): the state of App, the      *)
(* initialisation of the engine and send().                                *)
(*                                                                         *)
(* send() is an async function: it runs from one await to the next without *)
(* interruption, and anything else (another event handler, another send)   *)
(* may run while it waits.  Each action below is one such stretch.  A call *)
(* of send() reads messages, input and engine of the render in which the   *)
(* handler was created, that is, the state at the time of the event.       *)

\* BASE_SYSTEM (part_001, lines 19-21), the dash written in ASCII
BASE_SYSTEM ==
    "You are Transport LLM - a concise assistant focused on rail operations, automotive engineering, intelligent transit, and transport standards.\nIf context is provided, ground your answer in it. If the context is insufficient, say so briefly.\nWhen you use provided context, cite sources by [title]. If a user corrects you, accept the correction politely."

WelcomeMessage ==
    "Welcome. Ask about rail operations, automotive systems, public transit, or transportation standards."

Msg(role, content) == [role |-> role, content |-> content]

\* what the user types, what retrieve resolves to, what the stream yields,
\* and the message of an error
ChatInputs == {" ", " why? "}
ChatRetrieved == {<<[chunk |-> [title |-> "A", text |-> "aaaa"], score |-> 500]>>}
RetrieveOutcomes ==
    {[ok |-> FALSE, topK |-> <<>>]} \cup {[ok |-> TRUE, topK |-> t] : t \in ChatRetrieved}
ChatDeltas == {"", "a"}
ErrorMessages == {"x"}

\* the budget send() passes to buildAugmentedPrompt (lines 89-93)
ChatBudget ==
    ("maxTokens" :> 1200) @@ ("charsPerToken" :> 4)
        @@ ("header" :> "Context (use for citations):")

\* `Init error: ${err?.message ?? String(err)}`, `Error: ${...}`
InitErrorText(err) == "Init error: " \o err
ErrorText(err) == "Error: " \o err

\* (A variant that assembles a prompt even when retrieve rejected.)
AugmentedUserAlways(userRaw, ret) == buildAugmentedPrompt(userRaw, ret.topK, ChatBudget)

\* augmentedUser after the try/catch of lines 78-100
AugmentedUser(userRaw, ret) ==
    IF ret.ok THEN buildAugmentedPrompt(userRaw, ret.topK, ChatBudget) ELSE userRaw

\* msgs.filter((m) => m.role !== "system")
RECURSIVE NotSystem(_)
NotSystem(msgs) ==
    IF msgs = <<>> THEN <<>>
    ELSE (IF Head(msgs).role # "system" THEN <<Head(msgs)>> ELSE <<>>) \o NotSystem(Tail(msgs))

\* uiNext (lines 104-108)
UiNext(messages, userRaw) ==
    messages \o <<Msg("user", userRaw), Msg("assistant", "")>>

\* apiMessages (lines 117-122)
ApiMessages(uiNext, augmentedUser) ==
    LET prior == SliceTo(NotSystem(uiNext), -1)
    IN  <<Msg("system", BASE_SYSTEM)>> \o SliceTo(prior, -1) \o <<Msg("user", augmentedUser)>>

\* the updater of lines 132-142
AppendDelta(curr, delta) ==
    LET last == Len(curr)
    IN  IF last > 0 /\ curr[last].role = "assistant"
        THEN [curr EXCEPT ![last] = Msg("assistant", curr[last].content \o delta)]
        ELSE curr

ChatInit ==
    /\ TopKIdle /\ LoadIdle /\ RetrieveIdle /\ PromptIdle /\ RagIdle /\ CosineIdle /\ EngineInitIdle
    /\ chEngine = FALSE
    /\ chBusy = TRUE
    /\ chInput = ""
    /\ chMessages = <<Msg("system", BASE_SYSTEM), Msg("assistant", WelcomeMessage)>>
    /\ chInitPc = "loading"
    /\ chSends = <<>>

\* CreateMLCEngine resolved (lines 52-58, 64)
InitResolved ==
    /\ chInitPc = "loading"
    /\ chEngine' = TRUE
    /\ chBusy' = FALSE
    /\ chInitPc' = "done"
    /\ UNCHANGED <<chInput, chMessages, chSends>>
    /\ UNCHANGED <<tkVars, ldVars, rtVars, paVars, rgVars, csVars, eiVars>>

\* CreateMLCEngine rejected (lines 59-64)
InitRejected(err) ==
    /\ chInitPc = "loading"
    /\ chMessages' = Append(chMessages, Msg("assistant", InitErrorText(err)))
    /\ chBusy' = FALSE
    /\ chInitPc' = "done"
    /\ UNCHANGED <<chEngine, chInput, chSends>>
    /\ UNCHANGED <<tkVars, ldVars, rtVars, paVars, rgVars, csVars, eiVars>>

\* the textarea takes events: disabled={!engine || busy} (line 188)
InputEnabled == chEngine /\ ~chBusy

\* onChange (line 190)
Type(text) ==
    /\ InputEnabled
    /\ chInput' = text
    /\ UNCHANGED <<chEngine, chBusy, chMessages, chInitPc, chSends>>
    /\ UNCHANGED <<tkVars, ldVars, rtVars, paVars, rgVars, csVars, eiVars>>

\* Enter in the textarea, or a click on the button: send() up to
\* await retrieve(...) (lines 72-81)
SendCalled ==
    /\ InputEnabled
    /\ Len(chSends) < MaxSends
    /\ LET userRaw == Trim(chInput)
       IN  IF userRaw = "" \/ ~chEngine
           THEN UNCHANGED chSends
           ELSE chSends' = Append(chSends,
                    [pc |-> "retrieve", input |-> chInput, userRaw |-> userRaw,
                     messages |-> chMessages, retrieved |-> "pending",
                     augmentedUser |-> userRaw, uiNext |-> <<>>, apiMessages |-> <<>>,
                     chunks |-> 0, outcome |-> "pending"])
    /\ UNCHANGED <<chEngine, chBusy, chInput, chMessages, chInitPc>>
    /\ UNCHANGED <<tkVars, ldVars, rtVars, paVars, rgVars, csVars, eiVars>>

\* retrieve settled: send() from there up to
\* await engine.chat.completions.create(...) (lines 81-127)
RetrieveSettled(s, ret) ==
    /\ s \in DOMAIN chSends
    /\ chSends[s].pc = "retrieve"
    /\ LET call == chSends[s]
           augmentedUser == AugmentedUser(call.userRaw, ret)
           uiNext == UiNext(call.messages, call.userRaw)
       IN  /\ chInput' = ""
           /\ chMessages' = uiNext
           /\ chBusy' = TRUE
           /\ chSends' = [chSends EXCEPT ![s] =
                  [call EXCEPT !.pc = "create",
                               !.retrieved = IF ret.ok THEN "ok" ELSE "failed",
                               !.augmentedUser = augmentedUser,
                               !.uiNext = uiNext,
                               !.apiMessages = ApiMessages(uiNext, augmentedUser)]]
    /\ UNCHANGED <<chEngine, chInitPc>>
    /\ UNCHANGED <<tkVars, ldVars, rtVars, paVars, rgVars, csVars, eiVars>>

\* the catch and finally of lines 145-152
GenerationFailed(s, err) ==
    /\ chMessages' = Append(chMessages, Msg("assistant", ErrorText(err)))
    /\ chBusy' = FALSE
    /\ chSends' = [chSends EXCEPT ![s] = [@ EXCEPT !.pc = "done", !.outcome = "failed"]]
    /\ UNCHANGED <<chEngine, chInput, chInitPc>>

\* create resolved to a stream: send() up to the first chunk awaited
CreateResolved(s) ==
    /\ s \in DOMAIN chSends
    /\ chSends[s].pc = "create"
    /\ chSends' = [chSends EXCEPT ![s] = [@ EXCEPT !.pc = "stream"]]
    /\ UNCHANGED <<chEngine, chBusy, chInput, chMessages, chInitPc>>
    /\ UNCHANGED <<tkVars, ldVars, rtVars, paVars, rgVars, csVars, eiVars>>

CreateRejected(s, err) ==
    /\ s \in DOMAIN chSends
    /\ chSends[s].pc = "create"
    /\ GenerationFailed(s, err)
    /\ UNCHANGED <<tkVars, ldVars, rtVars, paVars, rgVars, csVars, eiVars>>

\* the chunks all streams have yielded so far
RECURSIVE ChunksYielded(_)
ChunksYielded(sends) ==
    IF sends = <<>> THEN 0 ELSE Head(sends).chunks + ChunksYielded(Tail(sends))

\* the stream yielded a chunk: the body of the loop (lines 129-144)
StreamChunk(s, delta) ==
    /\ s \in DOMAIN chSends
    /\ chSends[s].pc = "stream"
    /\ ChunksYielded(chSends) < MaxStreamChunks
    /\ chMessages' = IF delta # "" THEN AppendDelta(chMessages, delta) ELSE chMessages
    /\ chSends' = [chSends EXCEPT ![s] = [@ EXCEPT !.chunks = @ + 1]]
    /\ UNCHANGED <<chEngine, chBusy, chInput, chInitPc>>
    /\ UNCHANGED <<tkVars, ldVars, rtVars, paVars, rgVars, csVars, eiVars>>

\* the stream ended: finally (lines 150-152)
StreamEnded(s) ==
    /\ s \in DOMAIN chSends
    /\ chSends[s].pc = "stream"
    /\ chBusy' = FALSE
    /\ chSends' = [chSends EXCEPT ![s] = [@ EXCEPT !.pc = "done", !.outcome = "ok"]]
    /\ UNCHANGED <<chEngine, chInput, chMessages, chInitPc>>
    /\ UNCHANGED <<tkVars, ldVars, rtVars, paVars, rgVars, csVars, eiVars>>

StreamFailed(s, err) ==
    /\ s \in DOMAIN chSends
    /\ chSends[s].pc = "stream"
    /\ GenerationFailed(s, err)
    /\ UNCHANGED <<tkVars, ldVars, rtVars, paVars, rgVars, csVars, eiVars>>

ChatNext ==
    \/ InitResolved
    \/ \E err \in ErrorMessages : InitRejected(err)
    \/ \E text \in ChatInputs : Type(text)
    \/ SendCalled
    \/ \E s \in 1 .. MaxSends, ret \in RetrieveOutcomes : RetrieveSettled(s, ret)
    \/ \E s \in 1 .. MaxSends : CreateResolved(s)
    \/ \E s \in 1 .. MaxSends, err \in ErrorMessages : CreateRejected(s, err)
    \/ \E s \in 1 .. MaxSends, delta \in ChatDeltas : StreamChunk(s, delta)
    \/ \E s \in 1 .. MaxSends : StreamEnded(s)
    \/ \E s \in 1 .. MaxSends, err \in ErrorMessages : StreamFailed(s, err)

SpecChat == ChatInit /\ [][ChatNext]_vars

\* the request of a call has been issued
Issued(call) == call.pc \in {"create", "stream", "done"}

IsErrorMsg(m) ==
    m.role = "assistant" /\ Len(m.content) >= 7 /\ SubSeq(m.content, 1, 7) = "Error: "

ErrorCount(msgs) == Cardinality({i \in DOMAIN msgs : IsErrorMsg(msgs[i])})

FailedGenerations == Cardinality({s \in DOMAIN chSends : chSends[s].outcome = "failed"})

\* C14: when retrieve (or the prompt assembly) of a send fails, the
\* generation request is still issued, its last message is the user message
\* holding exactly the trimmed input, and the failure adds no error message
\* to the chat: the send shows the plain question and the placeholder only,
\* and the chat never holds more error messages than generations that failed.
C14_RetrievalFailureFallsBack ==
    /\ \A s \in DOMAIN chSends :
        chSends[s].retrieved = "failed" =>
            LET call == chSends[s]
            IN  /\ Issued(call)
                /\ call.apiMessages # <<>>
                /\ call.apiMessages[Len(call.apiMessages)] = Msg("user", Trim(call.input))
                /\ call.uiNext = call.messages
                                    \o <<Msg("user", Trim(call.input)), Msg("assistant", "")>>
    /\ ErrorCount(chMessages) <= FailedGenerations

\* A send whose retrieval failed has finished its generation, its input had
\* blanks to trim, and the chat holds no error message.
C14_Witness ==
    \E s \in DOMAIN chSends :
        /\ chSends[s].retrieved = "failed"
        /\ chSends[s].outcome = "ok"
        /\ chSends[s].chunks > 0
        /\ Trim(chSends[s].input) # chSends[s].input
        /\ ErrorCount(chMessages) = 0

-----------------------------------------------------------------------------
(* The candidate pool and the options reported (part_003, lines 50-52 and  *)
(* 78-87), under SpecRetrieve.                                             *)

\* retrieve has run to its end, by return or by throw
Finished == rtPc \in {"returned", "threw"}
FetchKSupplied == Has(rtOpts, "mmr") /\ Has(rtOpts.mmr, "fetchK")

\* C15 (as amended): the number of candidates requested from topKCosine is
\* max(4 * k, mmr.fetchK) when the caller supplies a pool size and
\* max(4 * k, 40) when it supplies none.
C15_PoolIsAtLeastFourK ==
    Finished =>
        rtFetchK = Max2(4 * EffectiveK(rtOpts),
                        IF FetchKSupplied THEN rtOpts.mmr.fetchK ELSE 40)

\* C15 (as stated): the number of candidates requested from topKCosine is
\* the caller's mmr.fetchK when one is supplied, and max(4 * k, 40) when none
\* is supplied.
C15_PoolIsSuppliedFetchK ==
    Finished =>
        rtFetchK = IF FetchKSupplied THEN rtOpts.mmr.fetchK
                   ELSE Max2(4 * EffectiveK(rtOpts), 40)

\* A call that returned candidates, with a supplied pool size below 4 * k:
\* topKCosine was asked for 4 * k.
C15_Witness ==
    /\ Returned /\ rtTopK # <<>>
    /\ FetchKSupplied
    /\ rtOpts.mmr.fetchK < 4 * EffectiveK(rtOpts)
    /\ rtFetchK = 4 * EffectiveK(rtOpts)

\* C16: the applied field reports the effective value of every option used
\* to compute topK, defaults resolved: the k used, the pool size passed to
\* topKCosine, the lambda of the diversification when it ran, the domain
\* filter and the domain weights; also for omitted options and when
\* diversification is off.
C16_AppliedReportsEffectiveOptions ==
    Returned =>
        /\ Has(rtApplied, "k") /\ rtApplied.k = EffectiveK(rtOpts)
        /\ Has(rtApplied, "mmr") /\ rtApplied.mmr.fetchK = rtFetchK
        /\ MmrOn => rtApplied.mmr.lambda = EffectiveLambda(rtOpts)
        /\ Has(rtOpts, "domains") =>
            (Has(rtApplied, "domains") /\ rtApplied.domains = rtOpts.domains)
        /\ Has(rtOpts, "domainWeights") =>
            (Has(rtApplied, "domainWeights")
                /\ rtApplied.domainWeights = rtOpts.domainWeights)

\* What does hold of applied: the options it has fields for.
AppliedReportsWhatItHas ==
    Returned =>
        /\ DOMAIN rtApplied = DOMAIN rtOpts \ {"k"}
        /\ MmrOn => /\ rtApplied.mmr.fetchK = rtFetchK
                    /\ rtApplied.mmr.lambda = EffectiveLambda(rtOpts)
        /\ Has(rtOpts, "domains") => rtApplied.domains = rtOpts.domains
        /\ Has(rtOpts, "domainWeights") => rtApplied.domainWeights = rtOpts.domainWeights

\* the list is the weighted candidates sorted by descending score and cut
\* to its first k entries (to none if k is negative)
SortedAndCut(list, weighted, k) ==
    /\ \A i \in 1 .. Len(list) - 1 : list[i].score >= list[i + 1].score
    /\ Range(list) \subseteq Range(weighted)
    /\ \A t \in Range(list), w \in Range(weighted) \ Range(list) : t.score >= w.score
    /\ Len(list) = (IF k < Len(weighted) THEN Max2(k, 0) ELSE Len(weighted))

\* C17: without diversification the result is the filtered and weighted
\* candidates sorted by descending weighted score and cut to the first k;
\* with or without diversification the result has at most k entries (none
\* if k is negative), for every k with which the call returns.
C17_AtMostKReturned ==
    Returned =>
        /\ ~MmrOn => SortedAndCut(rtTopK, rtWeighted, EffectiveK(rtOpts))
        /\ Len(rtTopK) <= Max2(EffectiveK(rtOpts), 0)

\* The same statement for k >= 0 only.
AtMostKReturnedFromZero ==
    (Returned /\ EffectiveK(rtOpts) >= 0) =>
        /\ ~MmrOn => SortedAndCut(rtTopK, rtWeighted, EffectiveK(rtOpts))
        /\ Len(rtTopK) <= Max2(EffectiveK(rtOpts), 0)

-----------------------------------------------------------------------------
(* The two cosine functions, each called with (a, b) and with (b, a):      *)
(* cosineSim over Float32Arrays (part_004, lines 8-12) and cosine over     *)
(* Maps (part_000, lines 121-130).  A number is a record: NaN, or a value. *)

NaN == [nan |-> TRUE, val |-> 0]
Num(v) == [nan |-> FALSE, val |-> v]

\* x === y for two numbers: NaN equals nothing, itself included
NumEq(x, y) == ~x.nan /\ ~y.nan /\ x.val = y.val

\* (A variant with a[i] in the place of b[i].)
DenseTermTypo(a, b, i) == a[i] * a[i]

\* a[i] * b[i], i 1-based here
DenseTerm(a, b, i) == a[i] * b[i]

\* for (let i = 0; i < a.length; i++) s += a[i] * b[i]: past the end of b,
\* b[i] is undefined, the product is NaN and the sum stays NaN
RECURSIVE CosineSimFrom(_, _, _, _)
CosineSimFrom(a, b, i, s) ==
    IF i > Len(a) THEN Num(s)
    ELSE IF i > Len(b) THEN NaN
    ELSE CosineSimFrom(a, b, i + 1, Fl(s + Fl(DenseTerm(a, b, i))))

\* cosineSim (part_004, lines 8-12)
cosineSim(a, b) == CosineSimFrom(a, b, 1, 0)

DenseValues == {-1, 0, 3}
DenseVectors == SeqsUpTo(DenseValues, MaxVecLen)

\* Maps over three keys, entries in any insertion order, weights in
\* thousandths
SparseKeys == {"x", "y", "z"}
SparseValues == {0, 14, 1000}
SparseMaps ==
    {m \in SeqsUpTo(SparseKeys \X SparseValues, MaxVecLen) :
        \A i, j \in DOMAIN m : m[i][1] = m[j][1] => i = j}

CosineInit ==
    /\ TopKIdle /\ LoadIdle /\ RetrieveIdle /\ PromptIdle /\ RagIdle /\ ChatIdle /\ EngineInitIdle
    /\ \/ csKind = "dense" /\ csA \in DenseVectors /\ csB \in DenseVectors
       \/ csKind = "sparse" /\ csA \in SparseMaps /\ csB \in SparseMaps
    /\ csAB = <<>> /\ csBA = <<>>
    /\ csPc = "ready"

CallCosineSim ==
    /\ csPc = "ready" /\ csKind = "dense"
    /\ csAB' = cosineSim(csA, csB)
    /\ csBA' = cosineSim(csB, csA)
    /\ csPc' = "done"
    /\ UNCHANGED <<csKind, csA, csB>>
    /\ UNCHANGED <<tkVars, ldVars, rtVars, paVars, rgVars, chVars, eiVars>>

CallCosine ==
    /\ csPc = "ready" /\ csKind = "sparse"
    /\ csAB' = Num(cosine(csA, csB))
    /\ csBA' = Num(cosine(csB, csA))
    /\ csPc' = "done"
    /\ UNCHANGED <<csKind, csA, csB>>
    /\ UNCHANGED <<tkVars, ldVars, rtVars, paVars, rgVars, chVars, eiVars>>

CosineNext == CallCosineSim \/ CallCosine

SpecCosine == CosineInit /\ [][CosineNext]_vars

\* the keys both maps have, in the order of m
RECURSIVE CommonKeys(_, _)
CommonKeys(m, other) ==
    IF m = <<>> THEN <<>>
    ELSE (IF MapHas(other, Head(m)[1]) THEN <<Head(m)[1]>> ELSE <<>>)
            \o CommonKeys(Tail(m), other)

\* both calls add the same products in the same order
SameOrderOfSum ==
    \/ csKind = "dense" /\ Len(csA) = Len(csB)
    \/ csKind = "sparse"
        /\ (Len(csA) # Len(csB) \/ CommonKeys(csA, csB) = CommonKeys(csB, csA))

\* C18 (as amended): cosineSim(a, b) equals cosineSim(b, a) for arrays of
\* equal length, and cosine(a, b) equals cosine(b, a) for maps that differ in
\* size or hold their common keys in the same order.
C18_SymmetricInSameOrder == (csPc = "done" /\ SameOrderOfSum) => NumEq(csAB, csBA)

\* C18 (as stated): for all vectors a and b, cosineSim(a, b) equals
\* cosineSim(b, a) and cosine(a, b) equals cosine(b, a).
C18_CosineSymmetric == csPc = "done" => NumEq(csAB, csBA)

\* Two maps of different sizes with two common keys, met in different
\* orders, and a sum that is rounded: the two calls agree.
C18_Witness ==
    /\ csPc = "done" /\ csKind = "sparse"
    /\ Len(csA) # Len(csB)
    /\ Len(CommonKeys(csA, csB)) = 2
    /\ CommonKeys(csA, csB) # CommonKeys(csB, csA)
    /\ csAB.val > 1000000
    /\ NumEq(csAB, csBA)


-----------------------------------------------------------------------------
\* The request send() composes, and the sends that may run at once.

\* C19: the message list passed to the engine is one system message
\* (BASE_SYSTEM) first, then the earlier user and assistant turns in chat
\* order, then one user message carrying the augmented prompt; the empty
\* assistant placeholder added for streaming is never part of the request, and
\* the chat history keeps the plain question rather than the augmented prompt.
C19_RequestShape ==
    \A s \in DOMAIN chSends :
        Issued(chSends[s]) =>
            LET call == chSends[s]
                req == call.apiMessages
                n == Len(req)
            IN  /\ n >= 2
                /\ req[1] = Msg("system", BASE_SYSTEM)
                /\ \A i \in 2 .. n : req[i].role # "system"
                /\ req[n] = Msg("user", call.augmentedUser)
                /\ SubSeq(req, 2, n - 1) = NotSystem(call.messages)
                /\ \A i \in 1 .. n : req[i] # Msg("assistant", "")
                /\ call.uiNext[Len(call.uiNext) - 1] = Msg("user", call.userRaw)

\* C19 without the clause on the placeholder: what the request does satisfy
RequestShapeButPlaceholder ==
    \A s \in DOMAIN chSends :
        Issued(chSends[s]) =>
            LET call == chSends[s]
                req == call.apiMessages
                n == Len(req)
            IN  /\ n >= 2
                /\ req[1] = Msg("system", BASE_SYSTEM)
                /\ \A i \in 2 .. n : req[i].role # "system"
                /\ req[n] = Msg("user", call.augmentedUser)
                /\ SubSeq(req, 2, n - 1) = NotSystem(call.messages)
                /\ call.uiNext[Len(call.uiNext) - 1] = Msg("user", call.userRaw)

\* send() has accepted the input and its stream has neither finished nor failed
InProgress(call) == call.pc # "done"

SendsInProgress == {s \in DOMAIN chSends : InProgress(chSends[s])}

\* C20: at most one send is in progress at any time, and while one is in
\* progress busy is true, from the moment send() accepts the input (before its
\* first suspension point) until its stream has finished or failed.
C20_AtMostOneSendInProgress ==
    /\ Cardinality(SendsInProgress) <= 1
    /\ SendsInProgress # {} => chBusy

\* the first conjunct of C20 alone: no two sends are in progress together
OneSendAtATime == Cardinality(SendsInProgress) <= 1

-----------------------------------------------------------------------------
\* The context makeContext packs.

\* the chunks of the first j hits, one after the other
RECURSIVE ChunksOf(_, _)
ChunksOf(hits, j) ==
    IF j = 0 THEN "" ELSE ChunksOf(hits, j - 1) \o ContextChunk(hits[j])

\* the first j hits are packed: they fit together, and the next one, if
\* there is one, does not fit with them
PackedPrefix(hits, j, maxChars) ==
    /\ Len(ChunksOf(hits, j)) <= maxChars
    /\ j < Len(hits) => Len(ChunksOf(hits, j + 1)) > maxChars

\* C21: the context makeContext returns has length at most maxChars and is
\* made of the whole entries of a prefix of the ranked hits, the prefix that
\* ends before the first hit whose entry does not fit; when the top hit alone
\* does not fit it is the empty string, and then the chat sends the question
\* with no context block.
C21_ContextIsPackedPrefix ==
    /\ rgPc \in {"made", "composed"} =>
        /\ rgHits = topK(rgQuery, rgIndex, rgK)
        /\ Len(rgCtx) <= rgMaxChars
        /\ \E j \in 0 .. Len(rgHits) :
            /\ PackedPrefix(rgHits, j, rgMaxChars)
            /\ rgCtx = Trim(ChunksOf(rgHits, j))
        /\ (rgHits # <<>> /\ Len(ContextChunk(rgHits[1])) > rgMaxChars) => rgCtx = ""
    /\ rgPc = "composed" =>
        /\ rgCtx = "" => rgUser = rgQuery
        /\ rgCtx # "" => rgUser = UserWithContext(rgQuery, rgCtx) /\ rgUser # rgQuery

\* The top hit does not fit and the second one alone would: nothing is
\* packed, and the chat has sent the plain question.
C21_Witness ==
    /\ rgPc = "composed"
    /\ Len(rgHits) = 2
    /\ Len(ContextChunk(rgHits[1])) > rgMaxChars
    /\ Len(ContextChunk(rgHits[2])) <= rgMaxChars
    /\ rgCtx = "" /\ rgUser = rgQuery

\* One hit is packed and the second does not fit with it.
ContextOfOneHit ==
    /\ rgPc = "made"
    /\ Len(rgHits) = 2
    /\ rgCtx # ""
    /\ rgCtx = Trim(ContextChunk(rgHits[1]))
    /\ Len(rgCtx) + 1 <= rgMaxChars

-----------------------------------------------------------------------------
\* A load of the index that fails.

\* the step in which the load of caller c fails
LoadFails(c) ==
    /\ ldPc[c] \in {"fetching", "parsing", "buffering"}
    /\ ldPc'[c] = "rejected"

\* the step in which caller c calls retrieve() or getIndexInfo()
Calls(c) == ldPc[c] = "idle" /\ ldPc'[c] # "idle"

\* the call whose load fails rejects and has scored nothing
FailedLoadRejects(c) ==
    LoadFails(c) => (ldFailed' = ldFailed + 1 /\ ldSeen'[c] = <<Null, Null>>)

\* the call that follows a failed load starts the load again
NextCallLoadsAgain(c) ==
    (Calls(c) /\ ldLastFailed) =>
        (ldStarted' = ldStarted + 1 /\ ldPc'[c] = "fetching" /\ ldLoad'[c] = ldStarted')

\* retrieve goes on to embedding, and from there to scoring, with both set
ProceedsOnlyWhenSet(c) ==
    /\ ldPc'[c] = "embedding" => IndexReady(ldIndex', ldEmb')
    /\ (ldPc[c] = "embedding" /\ ldPc'[c] = "done") =>
            (ldSeen'[c][1] # Null /\ ldSeen'[c][2] # Null)

\* once both are set neither is reset to null
NeverReset == IndexReady(ldIndex, ldEmb) => (ldIndex' # Null /\ ldEmb' # Null)

\* C22: a failed index load is not remembered: the call whose load fails
\* rejects without scoring anything, and the next retrieve or getIndexInfo
\* call starts the load again; retrieve proceeds to embedding and scoring
\* only with both _index and _emb set, and once both are set neither is ever
\* reset to null.
C22_FailedLoadNotRemembered ==
    [][/\ \A c \in Callers :
            /\ FailedLoadRejects(c)
            /\ NextCallLoadsAgain(c)
            /\ ProceedsOnlyWhenSet(c)
       /\ NeverReset]_vars

\* C22 with its second part for the calls that find no index only
FailedLoadRetriedUnlessLoaded ==
    [][/\ \A c \in Callers :
            /\ FailedLoadRejects(c)
            /\ (Calls(c) /\ ldLastFailed /\ ~IndexReady(ldIndex, ldEmb))
                    => NextCallLoadsAgain(c)
            /\ ProceedsOnlyWhenSet(c)
       /\ NeverReset]_vars

\* while the loads do not overlap, the call after a failed load finds no index
FailedLoadLeavesNoIndex ==
    (ldLastFailed /\ ldStarted = ldFailed) => ~IndexReady(ldIndex, ldEmb)

-----------------------------------------------------------------------------
(* The effect that initializes the engine (src/web/src/App.tsx, lines      *)
(* 52-82): init(modelId) runs when the component mounts and again when     *)
(* modelId changes; the cleanup of the effect sets the `cancelled` of the  *)
(* run it belongs to.  Each action is the code between two awaits.         *)

ModelIds == {"m1", "m2"}
DEFAULT_MODEL_ID == "m1"

InitialMessages ==
    << Msg("system", "You are a concise assistant for the Transport LLM - Edge AI Demo."),
       Msg("assistant", "Model is loading... first run may take a bit.") >>

EngineInitInit ==
    /\ TopKIdle /\ LoadIdle /\ RetrieveIdle /\ PromptIdle /\ RagIdle /\ ChatIdle /\ CosineIdle
    /\ eiModelId = DEFAULT_MODEL_ID
    /\ eiEngine = NoEngine
    /\ eiBusy = TRUE
    /\ eiMessages = InitialMessages
    /\ eiInits = <<>>
    /\ eiMounted = FALSE

\* return () => { cancelled = true; } of the runs made so far
Cleanup(inits) == [i \in DOMAIN inits |-> [inits[i] EXCEPT !.cancelled = TRUE]]

\* init(model) up to await CreateMLCEngine(...): setBusy(true)
StartInit(inits, model) ==
    Append(inits, [model |-> model, cancelled |-> FALSE, pc |-> "pending"])

\* the component mounts and the effect runs
EffectRun ==
    /\ ~eiMounted /\ eiInits = <<>>
    /\ eiMounted' = TRUE
    /\ eiInits' = StartInit(eiInits, eiModelId)
    /\ eiBusy' = TRUE
    /\ UNCHANGED <<eiModelId, eiEngine, eiMessages>>
    /\ UNCHANGED <<tkVars, ldVars, rtVars, paVars, rgVars, chVars, csVars>>

\* React's StrictMode (development) cleans the effect up and runs it again
\* right after the mount, with the state kept
EffectRunAgain ==
    /\ eiMounted
    /\ Len(eiInits) = 1 /\ eiInits[1].pc = "pending" /\ ~eiInits[1].cancelled
    /\ eiInits' = StartInit(Cleanup(eiInits), eiModelId)
    /\ eiBusy' = TRUE
    /\ UNCHANGED <<eiModelId, eiEngine, eiMessages, eiMounted>>
    /\ UNCHANGED <<tkVars, ldVars, rtVars, paVars, rgVars, chVars, csVars>>

\* the model picker, disabled={busy} (lines 163-166): setModelId, the
\* cleanup of the effect, and the effect again
ChangeModel(model) ==
    /\ eiMounted /\ ~eiBusy
    /\ model # eiModelId
    /\ Len(eiInits) < MaxInits
    /\ eiModelId' = model
    /\ eiInits' = StartInit(Cleanup(eiInits), model)
    /\ eiBusy' = TRUE
    /\ UNCHANGED <<eiEngine, eiMessages, eiMounted>>
    /\ UNCHANGED <<tkVars, ldVars, rtVars, paVars, rgVars, chVars, csVars>>

\* the component unmounts: the cleanup runs, and React drops the state
\* updates made from then on
Unmount ==
    /\ eiMounted
    /\ eiMounted' = FALSE
    /\ eiInits' = Cleanup(eiInits)
    /\ UNCHANGED <<eiModelId, eiEngine, eiBusy, eiMessages>>
    /\ UNCHANGED <<tkVars, ldVars, rtVars, paVars, rgVars, chVars, csVars>>

ReadyText(model) == "Ready. Using model: " \o model

\* CreateMLCEngine resolved: lines 61-68 and the finally
EngineCreated(i) ==
    /\ i \in DOMAIN eiInits
    /\ eiInits[i].pc = "pending"
    /\ eiInits' = [eiInits EXCEPT ![i].pc = "resolved"]
    /\ IF ~eiInits[i].cancelled
       THEN /\ eiEngine' = eiInits[i].model
            /\ eiMessages' = <<eiMessages[1], Msg("assistant", ReadyText(eiInits[i].model))>>
            /\ eiBusy' = FALSE
       ELSE UNCHANGED <<eiEngine, eiMessages, eiBusy>>
    /\ UNCHANGED <<eiModelId, eiMounted>>
    /\ UNCHANGED <<tkVars, ldVars, rtVars, paVars, rgVars, chVars, csVars>>

\* CreateMLCEngine rejected: the catch (lines 69-73) and the finally
EngineFailed(i, err) ==
    /\ i \in DOMAIN eiInits
    /\ eiInits[i].pc = "pending"
    /\ eiInits' = [eiInits EXCEPT ![i].pc = "rejected"]
    /\ IF eiMounted
       THEN /\ eiMessages' = Append(eiMessages, Msg("assistant", InitErrorText(err)))
            /\ eiEngine' = NoEngine
       ELSE UNCHANGED <<eiMessages, eiEngine>>
    /\ eiBusy' = IF ~eiInits[i].cancelled THEN FALSE ELSE eiBusy
    /\ UNCHANGED <<eiModelId, eiMounted>>
    /\ UNCHANGED <<tkVars, ldVars, rtVars, paVars, rgVars, chVars, csVars>>

EngineInitNext ==
    \/ EffectRun
    \/ EffectRunAgain
    \/ \E model \in ModelIds : ChangeModel(model)
    \/ Unmount
    \/ \E i \in 1 .. MaxInits : EngineCreated(i)
    \/ \E i \in 1 .. MaxInits, err \in ErrorMessages : EngineFailed(i, err)

SpecEngineInit == EngineInitInit /\ [][EngineInitNext]_vars

\* the step in which the cancelled initialization i settles
StaleSettles(i) ==
    /\ eiInits[i].cancelled
    /\ eiInits[i].pc = "pending"
    /\ eiInits'[i].pc # "pending"

\* the step in which the most recent initialization settles, not cancelled
LatestSettles ==
    /\ eiInits # <<>>
    /\ ~eiInits[Len(eiInits)].cancelled
    /\ eiInits[Len(eiInits)].pc = "pending"
    /\ eiInits'[Len(eiInits)].pc # "pending"

\* C23: once an initialization has been cancelled, its later settling,
\* whether it succeeds or fails, never changes the engine, the busy flag or
\* the chat messages; only the most recent, non-cancelled initialization
\* installs an engine, clears it, or clears busy.
C23_StaleInitChangesNothing ==
    [][/\ \A i \in DOMAIN eiInits :
            StaleSettles(i) => UNCHANGED <<eiEngine, eiBusy, eiMessages>>
       /\ (eiEngine' # eiEngine \/ (eiBusy /\ ~eiBusy')) => LatestSettles]_vars

\* what holds: a cancelled initialization that succeeds changes nothing, and
\* one that fails leaves busy as it is
StaleInitLeavesBusy ==
    [][\A i \in DOMAIN eiInits :
            StaleSettles(i) =>
                /\ UNCHANGED eiBusy
                /\ eiInits'[i].pc = "resolved" => UNCHANGED <<eiEngine, eiMessages>>]_vars

\* the engine of the most recent initialization is cleared by a cancelled one
EngineClearedByStaleInit ==
    /\ Len(eiInits) = 2
    /\ eiInits[1].cancelled /\ eiInits[1].pc = "rejected"
    /\ eiInits[2].pc = "resolved" /\ ~eiInits[2].cancelled
    /\ eiEngine = NoEngine /\ eiMounted

=============================================================================
